---- MODULE Spec2Model ----
(***************************************************************************)
(* The token-aware structured-state ingestion engine of                    *)
(* relevance/test_rohs_extraction.py: validate_state_shape,                *)
(* merge_cert_state, build_sparse_prompt, call_llm_json and                *)
(* ingest_pages_token_aware.                                               *)
(*                                                                         *)
(* Python values are tagged records [t |-> tag, v |-> payload]; a dict is  *)
(* a function from its keys.  A str is the sequence of its characters, so  *)
(* that strip(), lower() and the number pattern are computed, not assumed. *)
(***************************************************************************)
EXTENDS Integers, Sequences, FiniteSets, TLC

(***************************************************************************)
(* Python values                                                           *)
(***************************************************************************)
None == [t |-> "null", v |-> <<>>]
PyStr(s) == [t |-> "str", v |-> s]
PyBool(b) == [t |-> "bool", v |-> b]
PyInt(n) == [t |-> "int", v |-> n]
PyList(l) == [t |-> "list", v |-> l]
EmptyDict == <<>>

IsDict(x) == "t" \notin DOMAIN x
IsNone(x) == ~IsDict(x) /\ x.t = "null"
IsStr(x) == ~IsDict(x) /\ x.t = "str"
IsBool(x) == ~IsDict(x) /\ x.t = "bool"
IsList(x) == ~IsDict(x) /\ x.t = "list"
\* isinstance(x, (int, float)): bool is a subclass of int in Python
IsIntOrFloat(x) == ~IsDict(x) /\ x.t \in {"int", "float", "bool"}

\* a test for None in the place of truthiness ("x is not None")
IsNotNone(x) == IsDict(x) \/ x.t # "null"

\* Python truthiness, as used by "x or []", "if page_url:", "if not candidate"
Truthy(x) ==
    IF IsDict(x) THEN DOMAIN x # {}
    ELSE CASE x.t = "null" -> FALSE
           [] x.t = "bool" -> x.v
           [] x.t = "int" -> x.v # 0
           [] x.t = "float" -> x.v[1] # 0
           [] OTHER -> x.v # <<>>

(***************************************************************************)
(* str methods on character sequences                                      *)
(***************************************************************************)
Whitespace == {" ", "\t", "\n"}
Digits == <<"0", "1", "2", "3", "4", "5", "6", "7", "8", "9">>
UpperCase == <<"A","B","C","D","E","F","G","H","I","J","K","L","M",
               "N","O","P","Q","R","S","T","U","V","W","X","Y","Z">>
LowerCase == <<"a","b","c","d","e","f","g","h","i","j","k","l","m",
               "n","o","p","q","r","s","t","u","v","w","x","y","z">>

RECURSIVE LStrip(_)
LStrip(s) == IF s # <<>> /\ Head(s) \in Whitespace THEN LStrip(Tail(s)) ELSE s

RECURSIVE RStrip(_)
RStrip(s) ==
    IF s # <<>> /\ s[Len(s)] \in Whitespace
    THEN RStrip(SubSeq(s, 1, Len(s) - 1)) ELSE s

\* str.strip()
Strip(s) == RStrip(LStrip(s))

LowerChar(c) ==
    IF \E i \in 1..26 : UpperCase[i] = c
    THEN LowerCase[CHOOSE i \in 1..26 : UpperCase[i] = c] ELSE c

\* str.lower()
\* a comparison that forgets lower()
LowerForgotten(s) == s

Lower(s) == [i \in 1..Len(s) |-> LowerChar(s[i])]

(***************************************************************************)
(* 1) STATE & RULES                                                        *)
(***************************************************************************)
STRING_FIELDS ==
    {"artifact_type", "name", "issuing_body", "region", "overview",
     "full_description", "legal_reference", "fee", "application_process",
     "official_link", "updated_at"}
BOOL_FIELDS == {"mandatory"}
NUMBER_FIELDS == {"validity_period_months", "lead_time_days", "processing_time_days"}
LIST_STRING_FIELDS ==
    {"aliases", "domain_tags", "scope_tags", "harmonized_standards",
     "sources", "prerequisites", "audit_scope", "test_items"}
SCALAR_FIELDS == STRING_FIELDS \cup BOOL_FIELDS \cup NUMBER_FIELDS
ALL_FIELDS == SCALAR_FIELDS \cup LIST_STRING_FIELDS

EMPTY_STATE ==
    [certification_state |->
        [k \in ALL_FIELDS |-> IF k \in LIST_STRING_FIELDS THEN PyList(<<>>) ELSE None]]

\* obj with obj["certification_state"][k] = val
WithField(obj, k, val) ==
    [obj EXCEPT !.certification_state = [@ EXCEPT ![k] = val]]

\* the keys of EMPTY_STATE in the order it is written
FieldOrder ==
    <<"artifact_type", "name", "aliases", "issuing_body", "region", "mandatory",
      "validity_period_months", "overview", "full_description", "legal_reference",
      "domain_tags", "scope_tags", "harmonized_standards", "fee",
      "application_process", "official_link", "updated_at", "sources",
      "lead_time_days", "processing_time_days", "prerequisites", "audit_scope",
      "test_items">>

\* emptiness taken as Python falsiness ("not val")
IsFalsy(val) == ~Truthy(val)

(***************************************************************************)
(* 2) VALIDATION & MERGE                                                   *)
(***************************************************************************)
\* val in (None, "", []) or (isinstance(val, dict) and not val)
_is_empty(val) ==
    IF IsDict(val) THEN DOMAIN val = {}
    ELSE val.t = "null" \/ (val.t \in {"str", "list"} /\ val.v = <<>>)

\* _dedupe_str_list without its "seen" set
RECURSIVE DedupeFromKeepAll(_, _)
DedupeFromKeepAll(lst, out) ==
    IF lst = <<>> THEN out
    ELSE LET x == Head(lst)
             k == Strip(x.v)
         IN IF IsStr(x) /\ k # <<>>
            THEN DedupeFromKeepAll(Tail(lst), Append(out, PyStr(k)))
            ELSE DedupeFromKeepAll(Tail(lst), out)

\* _dedupe_str_list looking for the untrimmed element among the strings kept
RECURSIVE DedupeFromSeenRaw(_, _)
DedupeFromSeenRaw(lst, out) ==
    IF lst = <<>> THEN out
    ELSE LET x == Head(lst)
             k == Strip(x.v)
         IN IF ~IsStr(x) THEN DedupeFromSeenRaw(Tail(lst), out)
            ELSE IF k # <<>> /\ \A i \in 1..Len(out) : out[i] # x
                 THEN DedupeFromSeenRaw(Tail(lst), Append(out, PyStr(k)))
                 ELSE DedupeFromSeenRaw(Tail(lst), out)

\* the loop of _dedupe_str_list over the elements lst, with the strings kept so far
RECURSIVE DedupeFrom(_, _)
DedupeFrom(lst, out) ==
    IF lst = <<>> THEN out
    ELSE LET x == Head(lst)
             k == Strip(x.v)
         IN IF ~IsStr(x) THEN DedupeFrom(Tail(lst), out)
            ELSE IF k # <<>> /\ \A i \in 1..Len(out) : out[i] # PyStr(k)
                 THEN DedupeFrom(Tail(lst), Append(out, PyStr(k)))
                 ELSE DedupeFrom(Tail(lst), out)

\* _dedupe_str_list(lst): "lst or []" walks a list's elements, nothing for a falsy value
_dedupe_str_list(lst) ==
    IF Truthy(lst) THEN PyList(DedupeFrom(lst.v, <<>>)) ELSE PyList(<<>>)

\* (x or [])
OrEmptyList(x) == IF Truthy(x) THEN x ELSE PyList(<<>>)

\* list + list
ListConcat(a, b) == PyList(a.v \o b.v)

\* merge that lets every non-empty candidate value win, whatever the mode
MergeScalarCandidateWins(bv, cv, prefer_overwrite) ==
    IF ~_is_empty(cv) THEN cv ELSE bv

\* merge that copies the candidate's value blindly under prefer_overwrite
MergeScalarBlindOverwrite(bv, cv, prefer_overwrite) ==
    IF prefer_overwrite THEN cv
    ELSE (IF _is_empty(bv) /\ ~_is_empty(cv) THEN cv ELSE bv)

\* lines 152-158: one scalar field of the result
MergeScalar(bv, cv, prefer_overwrite) ==
    IF prefer_overwrite
    THEN (IF ~_is_empty(cv) THEN cv ELSE bv)
    ELSE (IF _is_empty(bv) /\ ~_is_empty(cv) THEN cv ELSE bv)

\* a list merge that puts the candidate's elements first
MergeListCandidateFirst(bv, cv) ==
    _dedupe_str_list(ListConcat(OrEmptyList(cv), OrEmptyList(bv)))

\* a list merge that concatenates and removes nothing
MergeListConcatOnly(bv, cv) == ListConcat(OrEmptyList(bv), OrEmptyList(cv))

\* lines 160-161: one list field of the result
MergeList(bv, cv) == _dedupe_str_list(ListConcat(OrEmptyList(bv), OrEmptyList(cv)))

\* sources with the page's url appended, whether it is there or not
AddSourceAppendOnly(srcs, page_url) ==
    IF Truthy(page_url) THEN ListConcat(srcs, PyList(<<page_url>>)) ELSE srcs

\* lines 163-164: sources with the page's url
AddSource(srcs, page_url) ==
    IF Truthy(page_url) THEN _dedupe_str_list(ListConcat(srcs, PyList(<<page_url>>)))
    ELSE srcs

\* dict.get(k): None for a missing key
Get(d, k) == IF k \in DOMAIN d THEN d[k] ELSE None

\* merge_cert_state as a function of the values held by its arguments: the
\* certification_state of the returned object.  (b[k] and c[k] of a scalar field
\* raise KeyError for a missing key: both arguments hold every scalar field.)
MergedFields(base_state, candidate_state, prefer_overwrite, page_url) ==
    LET b == base_state.certification_state
        c == candidate_state.certification_state
        merged == [k \in DOMAIN b \cup LIST_STRING_FIELDS |->
                     IF k \in SCALAR_FIELDS THEN MergeScalar(b[k], c[k], prefer_overwrite)
                     ELSE IF k \in LIST_STRING_FIELDS THEN MergeList(Get(b, k), Get(c, k))
                     ELSE b[k]]
    IN [merged EXCEPT !["sources"] = AddSource(@, page_url)]

\* a merge that records the url under a key of its own
MergeWithUrlKey(base_state, candidate_state, prefer_overwrite, page_url) ==
    LET merged == MergedFields(base_state, candidate_state, prefer_overwrite, page_url)
    IN [base_state EXCEPT !.certification_state =
           [k \in DOMAIN merged \cup {"page_url"} |->
               IF k = "page_url" THEN page_url ELSE merged[k]]]

merge_cert_state(base_state, candidate_state, prefer_overwrite, page_url) ==
    [base_state EXCEPT !.certification_state =
        MergedFields(base_state, candidate_state, prefer_overwrite, page_url)]

(***************************************************************************)
(* validate_state_shape                                                    *)
(***************************************************************************)
PyFloat(m, e) == [t |-> "float", v |-> <<m, e>>]

IsDigit(c) == \E i \in 1..10 : Digits[i] = c
DigitValue(c) == (CHOOSE i \in 1..10 : Digits[i] = c) - 1
AllDigits(s) == s # <<>> /\ \A i \in 1..Len(s) : IsDigit(s[i])

RECURSIVE DigitsToNat(_)
DigitsToNat(s) ==
    IF s = <<>> THEN 0
    ELSE 10 * DigitsToNat(SubSeq(s, 1, Len(s) - 1)) + DigitValue(s[Len(s)])

RECURSIVE NatToDigits(_)
NatToDigits(n) ==
    IF n < 10 THEN <<Digits[n + 1]>>
    ELSE Append(NatToDigits(n \div 10), Digits[(n % 10) + 1])

RECURSIVE Pow10(_)
Pow10(e) == IF e = 0 THEN 1 ELSE 10 * Pow10(e - 1)

RECURSIVE StripTrailingZeros(_)
StripTrailingZeros(s) ==
    IF s # <<>> /\ s[Len(s)] = "0"
    THEN StripTrailingZeros(SubSeq(s, 1, Len(s) - 1)) ELSE s

\* the position of the first "." of s, 0 when there is none
DotPos(s) ==
    IF \E i \in 1..Len(s) : s[i] = "."
    THEN CHOOSE i \in 1..Len(s) : s[i] = "." /\ \A j \in 1..(i - 1) : s[j] # "."
    ELSE 0

Unsigned(s) == IF s # <<>> /\ s[1] = "-" THEN Tail(s) ELSE s

\* re.fullmatch(r"-?\d+(\.\d+)?", s)
NumberFullMatch(s) ==
    LET body == Unsigned(s)
        d == DotPos(body)
    IN IF d = 0 THEN AllDigits(body)
       ELSE AllDigits(SubSeq(body, 1, d - 1)) /\ AllDigits(SubSeq(body, d + 1, Len(body)))

\* int(s) of a matching string without "."
ParseInt(s) ==
    IF s[1] = "-" THEN PyInt(0 - DigitsToNat(Tail(s))) ELSE PyInt(DigitsToNat(s))

\* float(s) of a matching string with ".": the decimal m / 10^e, e minimal
ParseFloat(s) ==
    LET body == Unsigned(s)
        d == DotPos(body)
        frac == StripTrailingZeros(SubSeq(body, d + 1, Len(body)))
        m == DigitsToNat(SubSeq(body, 1, d - 1) \o frac)
    IN PyFloat(IF s[1] = "-" THEN 0 - m ELSE m, Len(frac))

RECURSIVE JoinRepr(_)
\* str(x): the text Python gives for a value.  (The only dict a field is given
\* is the empty one.)
RECURSIVE StrOf(_)
StrOf(x) ==
    IF IsDict(x) THEN <<"{", "}">>
    ELSE CASE x.t = "null" -> <<"N", "o", "n", "e">>
           [] x.t = "str" -> x.v
           [] x.t = "bool" -> IF x.v THEN <<"T", "r", "u", "e">>
                              ELSE <<"F", "a", "l", "s", "e">>
           [] x.t = "int" -> IF x.v < 0 THEN <<"-">> \o NatToDigits(0 - x.v)
                             ELSE NatToDigits(x.v)
           [] x.t = "float" ->
                LET m == x.v[1]
                    e == x.v[2]
                    a == IF m < 0 THEN 0 - m ELSE m
                    ip == NatToDigits(a \div Pow10(e))
                    fr == NatToDigits(a % Pow10(e))
                    pad == [i \in 1..(e - Len(fr)) |-> "0"]
                IN (IF m < 0 THEN <<"-">> ELSE <<>>) \o ip \o <<".">>
                       \o (IF e = 0 THEN <<"0">> ELSE pad \o fr)
           [] x.t = "list" -> <<"[">> \o JoinRepr(x.v) \o <<"]">>

\* ", ".join(repr(e) for e in l), a str element shown in quotes
JoinRepr(l) ==
    IF l = <<>> THEN <<>>
    ELSE LET h == IF IsStr(Head(l)) THEN <<"'">> \o Head(l).v \o <<"'">>
                  ELSE StrOf(Head(l))
         IN IF Len(l) = 1 THEN h ELSE h \o <<",", " ">> \o JoinRepr(Tail(l))

sTrue == <<"t", "r", "u", "e">>
sFalse == <<"f", "a", "l", "s", "e">>

\* lines 116-118
CoerceString(val) ==
    IF IsNone(val) \/ IsStr(val) THEN val ELSE PyStr(StrOf(val))

\* lines 120-126
BoolAccepted(val) ==
    IsNone(val) \/ IsBool(val) \/ Lower(StrOf(val)) \in {sTrue, sFalse}
CoerceBool(val) ==
    IF IsNone(val) \/ IsBool(val) THEN val ELSE PyBool(Lower(StrOf(val)) = sTrue)

\* a number coercion that always calls float(s)
CoerceNumberAlwaysFloat(val) ==
    IF IsNone(val) \/ IsIntOrFloat(val) THEN val
    ELSE LET s == Strip(StrOf(val))
         IN IF DotPos(s) # 0 THEN ParseFloat(s)
            ELSE PyFloat(ParseInt(s).v, 0)

\* lines 128-134
NumberAccepted(val) ==
    IsNone(val) \/ IsIntOrFloat(val) \/ NumberFullMatch(Strip(StrOf(val)))
CoerceNumber(val) ==
    IF IsNone(val) \/ IsIntOrFloat(val) THEN val
    ELSE LET s == Strip(StrOf(val))
         IN IF DotPos(s) # 0 THEN ParseFloat(s) ELSE ParseInt(s)

\* the exceptions of validate_state_shape
ErrTopLevel == "ValueError: Top-level must have 'certification_state'"
ErrNoKeys == "AttributeError: object has no attribute 'keys'"
ErrKeys == "ValueError: State keys mismatch"
ErrBool == "ValueError: must be boolean"
ErrNumber == "ValueError: must be number"
ErrList == "ValueError: must be list"

\* a validation that looks at the values before it looks at the keys
ValidateErrorValuesFirst(obj) ==
    IF ~IsDict(obj) \/ "certification_state" \notin DOMAIN obj THEN ErrTopLevel
    ELSE LET cs == obj.certification_state
         IN IF ~IsDict(cs) THEN ErrNoKeys
            ELSE IF \E k \in BOOL_FIELDS \cap DOMAIN cs : ~BoolAccepted(cs[k]) THEN ErrBool
            ELSE IF \E k \in NUMBER_FIELDS \cap DOMAIN cs : ~NumberAccepted(cs[k])
                 THEN ErrNumber
            ELSE IF \E k \in LIST_STRING_FIELDS \cap DOMAIN cs : ~IsList(cs[k])
                 THEN ErrList
            ELSE IF ALL_FIELDS \ DOMAIN cs # {} THEN ErrKeys
            ELSE "none"

\* the first exception validate_state_shape raises on obj, "none" when it returns
ValidateError(obj) ==
    IF ~IsDict(obj) \/ "certification_state" \notin DOMAIN obj THEN ErrTopLevel
    ELSE LET cs == obj.certification_state
         IN IF ~IsDict(cs) THEN ErrNoKeys
            ELSE IF DOMAIN cs # ALL_FIELDS THEN ErrKeys
            ELSE IF \E k \in BOOL_FIELDS : ~BoolAccepted(cs[k]) THEN ErrBool
            ELSE IF \E k \in NUMBER_FIELDS : ~NumberAccepted(cs[k]) THEN ErrNumber
            ELSE IF \E k \in LIST_STRING_FIELDS : ~IsList(cs[k]) THEN ErrList
            ELSE "none"

\* the object validate_state_shape returns when it raises nothing
ValidateClean(obj) ==
    [obj EXCEPT !.certification_state =
        [k \in DOMAIN @ |->
            IF k \in STRING_FIELDS THEN CoerceString(@[k])
            ELSE IF k \in BOOL_FIELDS THEN CoerceBool(@[k])
            ELSE IF k \in NUMBER_FIELDS THEN CoerceNumber(@[k])
            ELSE _dedupe_str_list(@[k])]]

validate_state_shape(obj) ==
    IF ValidateError(obj) = "none"
    THEN [err |-> "none", val |-> ValidateClean(obj)]
    ELSE [err |-> ValidateError(obj), val |-> None]

(***************************************************************************)
(* 3) TOKEN COUNTING, 4) TOKEN-AWARE PROMPTING                             *)
(*                                                                         *)
(* A text is the sequence of its sentences, each the number of tokens the  *)
(* tokenizer gives it; the count of a text is the sum over its sentences   *)
(* (the tokenizer itself is a library, outside the repository).            *)
(***************************************************************************)
TokensPerMessage == 3
ReplyPrimingTokens == 3
\* "Return strict JSON only. No explanations."
SystemMessageTokens == 8
\* the fixed wording of the user message around schema and evidence
PromptFrameTokens == 60
TrimmedFrameTokens == 30
\* json.dumps(target_schema): the braces and one entry per key
SchemaBraceTokens == 6
SchemaKeyTokens == 4
MinEvidenceTokens == 500
MaxRetries == 2

RECURSIVE Sum(_)
Sum(s) == IF s = <<>> THEN 0 ELSE Head(s) + Sum(Tail(s))

count_text_tokens(text) == Sum(text)

\* int(x * num / den) of Python: truncation toward zero
IntScaled(x, num, den) ==
    IF x >= 0 THEN (x * num) \div den ELSE 0 - (((0 - x) * num) \div den)

Max(a, b) == IF a >= b THEN a ELSE b
Min(a, b) == IF a <= b THEN a ELSE b

\* len(enc.encode("\n".join(sents))): one token for each joining newline
JoinedTokens(sents) == IF sents = <<>> THEN 0 ELSE Sum(sents) + Len(sents) - 1

\* the sentences the loop of trim_to_tokens keeps: the longest prefix that fits
KeptSentences(sents, max_tokens) ==
    LET fits == {n \in 0..Len(sents) :
                    \A m \in 1..n : JoinedTokens(SubSeq(sents, 1, m)) <= max_tokens}
        n == CHOOSE x \in fits : \A y \in fits : y <= x
    IN SubSeq(sents, 1, n)

\* enc.decode(toks[:max_tokens]): a negative bound cuts from the end
HardCut(text, max_tokens) ==
    LET n == count_text_tokens(text)
        kept == IF max_tokens >= 0 THEN Min(n, max_tokens) ELSE Max(0, n + max_tokens)
    IN IF kept = 0 THEN <<>> ELSE <<kept>>

trim_to_tokens(text, max_tokens) ==
    IF count_text_tokens(text) <= max_tokens THEN text
    ELSE IF KeptSentences(text, max_tokens) # <<>> THEN KeptSentences(text, max_tokens)
    ELSE HardCut(text, max_tokens)

\* the message list: the fixed system message and the user message, whose
\* content is head (rules, wording, restricted schema) and evidence
NoMessages == [kind |-> "none", head |-> 0, ev |-> <<>>, empty_fields |-> <<>>]
CorrectiveMessages ==
    [kind |-> "corrective", head |-> 19, ev |-> <<>>, empty_fields |-> <<>>]

count_messages_tokens(messages) ==
    (TokensPerMessage + SystemMessageTokens)
        + (TokensPerMessage + messages.head + count_text_tokens(messages.ev))
        + ReplyPrimingTokens

\* line 338: the fields asked of the page
EmptyFields(st) ==
    LET cs == st.certification_state
    IN SelectSeq(FieldOrder,
                 LAMBDA k : /\ k \in DOMAIN cs
                            /\ cs[k] \in {None, PyStr(<<>>), PyList(<<>>)}
                            /\ k # "updated_at")

\* lines 340-342
TargetSchemaKeys(st) ==
    {EmptyFields(st)[i] : i \in 1..Len(EmptyFields(st))} \cup {"sources"}

SchemaTokens(st) == SchemaBraceTokens + SchemaKeyTokens * Cardinality(TargetSchemaKeys(st))

\* a composition that asks for every field, whatever the state holds
FullPromptEveryField(rules, st, evidence_block) ==
    [kind |-> "full", head |-> rules + PromptFrameTokens + SchemaTokens(st),
     ev |-> evidence_block,
     empty_fields |-> SelectSeq(FieldOrder, LAMBDA k : k # "updated_at")]

\* lines 351-365: the first composition
FullPrompt(rules, st, evidence_block) ==
    [kind |-> "full", head |-> rules + PromptFrameTokens + SchemaTokens(st),
     ev |-> evidence_block, empty_fields |-> EmptyFields(st)]

\* lines 369-376: the trimmed composition
TrimmedPrompt(rules, st, evidence_block, budget) ==
    [kind |-> "trimmed", head |-> rules + TrimmedFrameTokens + SchemaTokens(st),
     ev |-> trim_to_tokens(evidence_block, IntScaled(budget, 4, 5)),
     empty_fields |-> EmptyFields(st)]

\* a loop that gives up once the evidence is at its floor
OverBudgetAboveFloor(messages, budget) ==
    /\ count_messages_tokens(messages) > budget
    /\ count_text_tokens(messages.ev) > MinEvidenceTokens

\* line 377: the condition of the shrinking loop
OverBudget(messages, budget) == count_messages_tokens(messages) > budget

\* line 378: the evidence after one iteration of the loop
ShrunkEvidence(ev) ==
    trim_to_tokens(ev, Max(MinEvidenceTokens, IntScaled(count_text_tokens(ev), 9, 10)))

(***************************************************************************)
(* 5) ROBUST JSON CALLER: the responses of the completion service          *)
(*                                                                         *)
(* A text is a sequence of lexical units: "{", "}", ",", a member "a" or    *)
(* "b" (a key with its value), "F" (three backticks), "J" (the word json   *)
(* in any case), "w" (a word of prose) and " " (whitespace).  A response   *)
(* is its text and the object the JSON part of the text stands for.        *)
(***************************************************************************)
Members == {"a", "b"}

NoSpaces(text) == SelectSeq(text, LAMBDA c : c \notin Whitespace)

\* members separated by commas, or nothing
IsMemberList(s) ==
    \/ s = <<>>
    \/ /\ Len(s) % 2 = 1
       /\ \A i \in 1..Len(s) : IF i % 2 = 1 THEN s[i] \in Members ELSE s[i] = ","

\* json.loads(text) succeeds (with an object, for a text that begins with "{")
StrictParses(text) ==
    LET s == NoSpaces(text)
    IN /\ Len(s) >= 2
       /\ s[1] = "{" /\ s[Len(s)] = "}"
       /\ IsMemberList(SubSeq(s, 2, Len(s) - 1))

\* the keys of the object json.loads returns, in the order of first occurrence
RECURSIVE KeysOf(_)
KeysOf(s) ==
    IF s = <<>> THEN <<>>
    ELSE LET rest == KeysOf(SubSeq(s, 1, Len(s) - 1))
             c == s[Len(s)]
         IN IF c \in Members /\ ~(\E i \in 1..Len(rest) : rest[i] = c)
            THEN Append(rest, c) ELSE rest

JsonObject(text) == [t |-> "json", v |-> KeysOf(text)]

\* the position of the first unit at or after i that is not whitespace, and
\* Len(text) + 1 when there is none
NextNonSpace(text, i) ==
    LET rest == {j \in i..Len(text) : text[j] \notin Whitespace}
    IN IF rest = {} THEN Len(text) + 1 ELSE CHOOSE j \in rest : \A k \in rest : j <= k

UnitAt(text, i) == IF i \in 1..Len(text) THEN text[i] ELSE "end"

\* line 408: re.sub(r",\s*([}\]])", r"\1", candidate)
RECURSIVE RemoveTrailingCommasFrom(_, _)
RemoveTrailingCommasFrom(text, i) ==
    IF i > Len(text) THEN <<>>
    ELSE IF text[i] = "," /\ UnitAt(text, NextNonSpace(text, i + 1)) = "}"
    THEN RemoveTrailingCommasFrom(text, NextNonSpace(text, i + 1))
    ELSE <<text[i]>> \o RemoveTrailingCommasFrom(text, i + 1)

RemoveTrailingCommas(text) == RemoveTrailingCommasFrom(text, 1)

\* line 397: re.search(r"```json\s*(\{.*?\})\s*```", s, re.S | re.I): the
\* ends that close a group opened after the fence at i, the fences that have
\* such an end, and the group of the leftmost fence, shortest end
FenceGroupStart(text, i) == NextNonSpace(text, i + 2)

FenceGroupEnds(text, i) ==
    {e \in (FenceGroupStart(text, i) + 1)..Len(text) :
        /\ text[e] = "}"
        /\ UnitAt(text, NextNonSpace(text, e + 1)) = "F"}

FenceMatches(text) ==
    {i \in 1..Len(text) :
        /\ text[i] = "F" /\ UnitAt(text, i + 1) = "J"
        /\ UnitAt(text, FenceGroupStart(text, i)) = "{"
        /\ FenceGroupEnds(text, i) # {}}

MinOf(S) == CHOOSE x \in S : \A y \in S : x <= y
MaxOf(S) == CHOOSE x \in S : \A y \in S : x >= y

FencedGroup(text) ==
    LET i == MinOf(FenceMatches(text))
    IN SubSeq(text, FenceGroupStart(text, i), MinOf(FenceGroupEnds(text, i)))

\* lines 402-404: s[first:last+1], and <<>> when the condition of line 403 fails
Positions(text, c) == {i \in 1..Len(text) : text[i] = c}

BraceSpan(text) ==
    IF Positions(text, "{") # {} /\ Positions(text, "}") # {}
       /\ MaxOf(Positions(text, "}")) > MinOf(Positions(text, "{"))
    THEN SubSeq(text, MinOf(Positions(text, "{")), MaxOf(Positions(text, "}")))
    ELSE <<>>

\* lines 402-411
FromBraceSpan(s) ==
    LET span == BraceSpan(s)
    IN IF span = <<>> THEN None
       ELSE IF StrictParses(span) THEN JsonObject(span)
       ELSE IF StrictParses(RemoveTrailingCommas(span))
       THEN JsonObject(RemoveTrailingCommas(span))
       ELSE None

\* an extraction that stops at a fenced block that does not parse
ExtractStoppingAtFence(text) ==
    LET s == Strip(text)
    IN IF s = <<>> THEN None
       ELSE IF s[1] = "{" /\ s[Len(s)] = "}" /\ StrictParses(s) THEN JsonObject(s)
       ELSE IF FenceMatches(s) # {}
       THEN (IF StrictParses(FencedGroup(s)) THEN JsonObject(FencedGroup(s)) ELSE None)
       ELSE FromBraceSpan(s)

\* extract_json_or_none on a text, lines 387-413
ExtractJsonText(text) ==
    LET s == Strip(text)
    IN IF s = <<>> THEN None
       ELSE IF s[1] = "{" /\ s[Len(s)] = "}" /\ StrictParses(s) THEN JsonObject(s)
       ELSE IF FenceMatches(s) # {} /\ StrictParses(FencedGroup(s))
       THEN JsonObject(FencedGroup(s))
       ELSE FromBraceSpan(s)

\* the text of an object: "{}" for the empty one
ObjectText(o) == IF o = EmptyDict THEN <<"{", "}">> ELSE <<"{", "a", "}">>

NoResponse == [text |-> <<>>, obj |-> EmptyDict]
ProseOnly == [text |-> <<"w", " ", "w">>, obj |-> EmptyDict]
BareObject(o) == [text |-> ObjectText(o), obj |-> o]
FencedObject(o) == [text |-> <<"F", "J", " ">> \o ObjectText(o) \o <<" ", "F">>, obj |-> o]

\* a retry condition that allows one attempt too many
MayRetryOnceMore(n, limit) == n <= limit + 1

\* line 436: if attempt <= max_retries
MayRetry(n, limit) == n <= limit

\* line 421, in milliseconds
retry_backoff_seconds == 500

\* a delay that does not grow with the attempts
FixedDelay(n) == retry_backoff_seconds

\* line 437: time.sleep(retry_backoff_seconds * attempt)
RetryDelay(n) == retry_backoff_seconds * n

\* extract_json_or_none: None (here the value None) when no attempt parses
extract_json_or_none(raw) ==
    IF IsNone(ExtractJsonText(raw.text)) THEN None ELSE raw.obj

(***************************************************************************)
(* Inputs of the merge and validation operations                           *)
(***************************************************************************)
MaxBaseLen == 2
MaxCandLen == 1

SeqsUpTo(S, n) == UNION {[1..m -> S] : m \in 0..n}

sLead == <<"L", "e", "a", "d">>
slead == <<"l", "e", "a", "d">>
sPadLead == <<" ", "L", "e", "a", "d", " ">>
sBlank == <<" ">>
sRoHS == <<"R", "o", "H", "S">>
sEU == <<"E", "U">>
sUS == <<"U", "S">>
urlA == <<"u", "A">>
urlB == <<"u", "B">>

\* the values a scalar field of each kind is given
StrFieldValues ==
    {None, PyStr(<<>>), PyStr(sRoHS), PyStr(sEU), EmptyDict, PyList(<<>>)}
BoolFieldValues == {None, PyBool(TRUE), PyBool(FALSE)}
NumFieldValues == {None, PyInt(0), PyInt(36)}
ScalarValuesOf(k) ==
    IF k \in BOOL_FIELDS THEN BoolFieldValues
    ELSE IF k \in NUMBER_FIELDS THEN NumFieldValues ELSE StrFieldValues

\* list elements: a string, its case variant, a padded variant, a blank, a non-string
BaseElements == {PyStr(sLead), PyStr(sPadLead), PyStr(sBlank), PyInt(7)}
CandElements == BaseElements \cup {PyStr(slead)}
BaseLists == {PyList(l) : l \in SeqsUpTo(BaseElements, MaxBaseLen)}
CandLists == {PyList(l) : l \in SeqsUpTo(CandElements, MaxCandLen)}

ExercisedScalars == {"name", "mandatory", "validity_period_months"}
ExercisedLists == {"aliases", "sources"}

\* a state carried over from an earlier run, and a candidate that disagrees with it
PrefilledBase ==
    [certification_state |->
        [EMPTY_STATE.certification_state EXCEPT
            !["region"] = PyStr(sEU), !["mandatory"] = PyBool(FALSE),
            !["lead_time_days"] = PyInt(0), !["sources"] = PyList(<<PyStr(urlA)>>),
            !["aliases"] = PyList(<<PyStr(sLead)>>)]]
PrefilledCand ==
    [certification_state |->
        [EMPTY_STATE.certification_state EXCEPT
            !["region"] = PyStr(sUS), !["mandatory"] = PyBool(TRUE),
            !["lead_time_days"] = PyInt(5), !["sources"] = PyList(<<PyStr(urlB)>>),
            !["aliases"] = PyList(<<PyStr(slead)>>)]]

\* a state carried over whose region was left as the empty string
BlankRegionBase == WithField(PrefilledBase, "region", PyStr(<<>>))

UrlValues == {None, PyStr(urlA), PyStr(sBlank)}

\* the argument pairs: one field is varied over its values, on an empty or a
\* prefilled pair of states
Templates == {<<EMPTY_STATE, EMPTY_STATE>>, <<PrefilledBase, PrefilledCand>>}
BaseValuesOf(k) == IF k \in LIST_STRING_FIELDS THEN BaseLists ELSE ScalarValuesOf(k)
CandValuesOf(k) == IF k \in LIST_STRING_FIELDS THEN CandLists ELSE ScalarValuesOf(k)

(***************************************************************************)
(* merge_cert_state on objects: Python passes references, deepcopy makes   *)
(* new objects.  The heap is the sequence of the objects made so far; a    *)
(* dict object maps its keys to immutable values or to references.         *)
(***************************************************************************)
Ref(a) == [t |-> "ref", v |-> a]
IsRef(x) == ~IsDict(x) /\ x.t = "ref"
ListObj(l) == [t |-> "listobj", v |-> l]
DictObj(d) == [t |-> "dictobj", v |-> d]

ListKeys(d) == SelectSeq(FieldOrder, LAMBDA k : k \in DOMAIN d /\ IsList(d[k]))
PosIn(seq, k) == CHOOSE i \in 1..Len(seq) : seq[i] = k

\* new list objects for the list values of d, appended to the heap h
NewLists(h, d) == h \o [i \in 1..Len(ListKeys(d)) |-> ListObj(d[ListKeys(d)[i]].v)]

\* the items of a dict object holding d, its lists being those NewLists(h, d) made
ItemsOf(h, d) ==
    [k \in DOMAIN d |->
        IF IsList(d[k]) THEN Ref(Len(h) + PosIn(ListKeys(d), k)) ELSE d[k]]

\* a state object (outer dict, inner dict, lists) made on the heap
StoreState(h, sv) ==
    LET cs == sv.certification_state
        h1 == Append(NewLists(h, cs), DictObj(ItemsOf(h, cs)))
    IN [heap |-> Append(h1, DictObj([certification_state |-> Ref(Len(h1))])),
        ref |-> Len(h1) + 1]

InnerRef(h, a) == h[a].v.certification_state.v

\* the value a state object holds
LoadState(h, a) ==
    [certification_state |->
        [k \in DOMAIN h[InnerRef(h, a)].v |->
            LET slot == h[InnerRef(h, a)].v[k]
            IN IF IsRef(slot) THEN PyList(h[slot.v].v) ELSE slot]]

\* copy.copy: a new outer dict over the same inner dict
ShallowCopy(h, a) == [heap |-> Append(h, h[a]), ref |-> Len(h) + 1]

\* copy.deepcopy
deepcopy(h, a) == StoreState(h, LoadState(h, a))

\* merge_cert_state(base_state, candidate_state, prefer_overwrite, page_url) on
\* references: the copy's inner dict is written in place, each list field gets
\* a new list object, and the copy is returned
HeapMerge(h, base_state, candidate_state, prefer_overwrite, page_url) ==
    LET cp == deepcopy(h, base_state)
        b == InnerRef(cp.heap, cp.ref)
        val == MergedFields(LoadState(cp.heap, cp.ref),
                            LoadState(cp.heap, candidate_state),
                            prefer_overwrite, page_url)
    IN [heap |-> [NewLists(cp.heap, val) EXCEPT ![b] = DictObj(ItemsOf(cp.heap, val))],
        ref |-> cp.ref]

HeapBases ==
    {EMPTY_STATE, PrefilledBase,
     WithField(PrefilledBase, "aliases", PyList(<<PyStr(sPadLead), PyStr(sLead)>>))}
HeapCands ==
    {EMPTY_STATE, PrefilledCand, WithField(PrefilledCand, "name", PyStr(sRoHS))}

(***************************************************************************)
(* Inputs of the ingestion loop                                            *)
(***************************************************************************)
MaxPages == 2
MaxSentences == 2
MaxRetriesArg == 2

PageUrls == {PyStr(urlA), PyStr(urlB)}
PageLists == SeqsUpTo(PageUrls, MaxPages)

sStampA == <<"T", "1">>
sStampB == <<"T", "2">>
\* datetime.now(timezone.utc).strftime(...): whatever the clock gives
Timestamps == {PyStr(sStampA), PyStr(sStampB)}

\* the objects a response can hold
CandA == WithField(WithField(EMPTY_STATE, "name", PyStr(sRoHS)), "region", PyStr(sUS))
CandB ==
    [certification_state |->
        [EMPTY_STATE.certification_state EXCEPT
            !["mandatory"] = PyStr(<<"T", "r", "u", "e">>),
            !["validity_period_months"] = PyStr(<<" ", "3", "6">>),
            !["aliases"] = PyList(<<PyStr(sPadLead), PyStr(sLead)>>)]]
\* the two pages of the scenario: name and region, then mandatory and region
sEUEEA == <<"E", "U", "/", "E", "E", "A">>
ScenarioA == WithField(WithField(EMPTY_STATE, "name", PyStr(sRoHS)), "region", PyStr(sEUEEA))
ScenarioB == WithField(WithField(EMPTY_STATE, "mandatory", PyBool(TRUE)), "region", PyStr(sEUEEA))
\* an object with "" for the region and a timestamp of its own
sStampOld == <<"T", "0">>
CandEmptyRegion ==
    WithField(WithField(EMPTY_STATE, "region", PyStr(<<>>)), "updated_at", PyStr(sStampOld))
CandMissingKey ==
    [certification_state |->
        [k \in ALL_FIELDS \ {"fee"} |-> EMPTY_STATE.certification_state[k]]]
CandBadBool == WithField(CandA, "mandatory", PyStr(sEU))
CandBadList == WithField(CandA, "aliases", None)
CandNoWrapper == [name |-> PyStr(sRoHS)]
CandNullState == [certification_state |-> None]

LLMObjects ==
    {CandA, CandB, ScenarioA, ScenarioB, CandEmptyRegion,
     CandMissingKey, CandBadBool, CandBadList, CandNoWrapper,
     CandNullState, EmptyDict}
LLMResponses ==
    {ProseOnly, FencedObject(CandA)} \cup {BareObject(o) : o \in LLMObjects}

\* the responses of a run that is repeated
RerunResponses ==
    {ProseOnly} \cup
    {BareObject(o) : o \in {CandA, CandB, ScenarioA, ScenarioB, CandBadBool, EmptyDict}}

\* an object with an alias that differs by case from the prefilled one
CandOtherAlias == WithField(EMPTY_STATE, "aliases", PyList(<<PyStr(slead)>>))
GrowResponses == RerunResponses \cup {BareObject(CandOtherAlias)}

\* sentence sizes in tokens, and the evidence blocks made of them
SentenceTokens == {300, 700, 3900}
EvidenceBlocks == SeqsUpTo(SentenceTokens, MaxSentences)
IngestEvidence == {<<300>>, <<300, 300>>, <<700>>}

\* (model_context_tokens, reserve_for_output): the defaults; a budget of 700;
\* a budget of 0; a negative budget; budgets of 1500 and 5000
DefaultTokenConfig == <<60000, 4000>>
IngestTokenConfigs == {DefaultTokenConfig, <<1200, 500>>, <<4000, 4000>>}
PromptTokenConfigs ==
    IngestTokenConfigs \cup {<<500, 600>>, <<2000, 500>>, <<9000, 4000>>}
\* the tokens of system_rules.strip()
RulesTokens == {100, 1200}

(***************************************************************************)
(* Inputs of validate_state_shape                                          *)
(***************************************************************************)
s36 == <<"3", "6">>
sTRUE == <<"T", "R", "U", "E">>
sFalseCap == <<"F", "a", "l", "s", "e">>
sYes == <<"y", "e", "s">>

\* the values the bool field is given: null, booleans, "true" and "false" in
\* several cases, a padded "true", other strings, numbers, a list, a dict
BoolInputs ==
    {None, PyBool(TRUE), PyBool(FALSE),
     PyStr(sTrue), PyStr(sTRUE), PyStr(sFalseCap), PyStr(<<" ">> \o sTrue),
     PyStr(sYes), PyStr(<<>>), PyStr(<<"1">>),
     PyInt(1), PyInt(0), PyFloat(10, 1), PyList(<<>>), PyList(<<PyBool(TRUE)>>),
     EmptyDict}

\* the values a number field is given: null, numbers, strings of the number
\* form, a padded one, strings off the form, a list, a dict
NumberInputs ==
    {None, PyInt(36), PyInt(0 - 3), PyFloat(15, 1), PyBool(TRUE),
     PyStr(s36), PyStr(<<"-", "3">>), PyStr(<<"1", ".", "5", "0">>),
     PyStr(<<"-", "0", ".", "2", "5">>), PyStr(<<" ">> \o s36 \o <<"\n">>),
     PyStr(<<"1", ".">>), PyStr(<<".", "5">>), PyStr(<<"1", ".", "5", ".", "2">>),
     PyStr(<<"-">>), PyStr(<<"3", "-">>), PyStr(<<"+", "3">>), PyStr(<<"3", " ", "6">>),
     PyStr(sLead), PyStr(<<>>), PyList(<<>>), PyList(<<PyInt(36)>>), EmptyDict}

StringInputs ==
    {None, PyStr(<<>>), PyStr(sRoHS), PyStr(sPadLead), PyInt(7), PyBool(TRUE),
     PyFloat(15, 1), PyList(<<PyStr(sLead)>>), EmptyDict}

ListInputs == BaseLists \cup {None, PyStr(sLead), PyInt(7), EmptyDict}

ValidateInputsOf(k) ==
    IF k \in BOOL_FIELDS THEN BoolInputs
    ELSE IF k \in NUMBER_FIELDS THEN NumberInputs
    ELSE IF k \in LIST_STRING_FIELDS THEN ListInputs ELSE StringInputs

ValidatedFields == {"name", "mandatory", "validity_period_months", "lead_time_days", "aliases"}

\* inner dicts whose keys are not the fixed ones: one missing, one extra, one renamed
WithoutKey(cs, k) == [f \in DOMAIN cs \ {k} |-> cs[f]]
WithKey(cs, k, val) == [f \in DOMAIN cs \cup {k} |-> IF f = k THEN val ELSE cs[f]]
KeySetVariants(cs) ==
    {WithoutKey(cs, "fee"), WithoutKey(cs, "mandatory"),
     WithKey(cs, "notes", PyList(<<>>)),
     WithKey(WithoutKey(cs, "fee"), "fees", None),
     WithoutKey(WithKey(cs, "notes", PyList(<<>>)), "aliases")}

WellKeyedObjects ==
    UNION {{WithField(tp, k, val) : val \in ValidateInputsOf(k)} :
              tp \in {EMPTY_STATE, PrefilledCand}, k \in ValidatedFields}

IllKeyedObjects ==
    UNION {{[certification_state |-> cs] : cs \in KeySetVariants(o.certification_state)} :
              o \in {EMPTY_STATE, PrefilledCand,
                     WithField(EMPTY_STATE, "mandatory", PyStr(sYes)),
                     WithField(EMPTY_STATE, "lead_time_days", PyStr(sLead)),
                     WithField(EMPTY_STATE, "name", PyInt(7))}}

UnwrappedObjects ==
    {None, PyList(<<>>), EmptyDict, [name |-> PyStr(sRoHS)],
     [certification_state |-> None], [certification_state |-> PyList(<<>>)]}

ValidateInputs == WellKeyedObjects \cup IllKeyedObjects \cup UnwrappedObjects

(***************************************************************************)
(* TokenManager.chunk_content (agent_pipeline_improved.py)                 *)
(*                                                                         *)
(* A content is a sequence of the units "x" and "\n".                      *)
(***************************************************************************)
Newline == "\n"

\* content.split('\n\n'): separators are taken from the left, without overlap
RECURSIVE SplitFrom(_, _, _)
SplitFrom(text, i, piece) ==
    IF i > Len(text) THEN <<piece>>
    ELSE IF text[i] = Newline /\ i + 1 <= Len(text) /\ text[i + 1] = Newline
    THEN <<piece>> \o SplitFrom(text, i + 2, <<>>)
    ELSE SplitFrom(text, i + 1, Append(piece, text[i]))

SplitParagraphs(text) == SplitFrom(text, 1, <<>>)

\* '\n\n'.join(parts)
RECURSIVE JoinParagraphs(_)
JoinParagraphs(parts) ==
    IF parts = <<>> THEN <<>>
    ELSE IF Len(parts) = 1 THEN parts[1]
    ELSE parts[1] \o <<Newline, Newline>> \o JoinParagraphs(Tail(parts))

\* count_tokens: len(self.encoder.encode(text)), one token for each unit
count_tokens(text) == Len(text)

\* a test that looks at the chunk so far and not at the paragraph to add
OverflowsAlready(tokens_so_far, para_tokens, limit) == tokens_so_far > limit

\* line 90: if current_tokens + para_tokens > chunk_size
Overflows(tokens_so_far, para_tokens, limit) == tokens_so_far + para_tokens > limit

(***************************************************************************)
(* Inputs of extract_json_or_none and of chunk_content                     *)
(***************************************************************************)
MaxInner == 3
MaxContentLen == 6
MaxChunkSize == 2

\* what stands between the braces, and the braced groups
Inners == SeqsUpTo({"a", "b", ",", " "}, MaxInner)
Braced(inner) == <<"{">> \o inner \o <<"}">>
Groups == {Braced(inner) : inner \in Inners}
SecondGroups == {Braced(<<"a">>), Braced(<<"b", ",">>), Braced(<<"w">>)}

\* a group alone, padded, in prose, in a fence, in a fence that is not closed
\* or not labelled, and with a second group before or after it
TextsAround(g) ==
    {g, <<" ">> \o g \o <<" ">>, <<"w">> \o g, g \o <<"w">>,
     <<"F", "J">> \o g \o <<"F">>,
     <<"F", "J", " ">> \o g \o <<" ", "F">>,
     <<"w", "F", "J">> \o g \o <<"F", "w">>,
     <<"F", "J">> \o g,
     <<"F">> \o g \o <<"F">>}
    \cup {<<"F", "J">> \o g \o <<"F", "w">> \o h : h \in SecondGroups}
    \cup {h \o <<"w", "F", "J">> \o g \o <<"F">> : h \in SecondGroups}
    \cup {g \o <<"w">> \o h : h \in SecondGroups}

Texts ==
    {<<>>, <<" ">>, <<" ", " ">>, <<"w">>, <<"{">>, <<"}">>, <<"}", "{">>}
    \cup UNION {TextsAround(g) : g \in Groups}

Contents == SeqsUpTo({"x", Newline}, MaxContentLen)
ChunkSizes == 0..MaxChunkSize

(***************************************************************************)
(* ingest_pages_token_aware on objects: the caller holds a template (the   *)
(* module-level EMPTY_STATE, or a state of its own) and passes it as       *)
(* initial_state to one run after the other.                               *)
(***************************************************************************)
MaxRuns == 2

\* the objects a state object is made of: outer dict, inner dict, lists
ObjectsOf(h, a) ==
    {a, InnerRef(h, a)} \cup
    {h[InnerRef(h, a)].v[k].v :
        k \in {f \in DOMAIN h[InnerRef(h, a)].v : IsRef(h[InnerRef(h, a)].v[f])}}

\* state["certification_state"][k] = val, on the object itself
SetItem(h, a, k, val) == [h EXCEPT ![InnerRef(h, a)].v[k] = val]

\* state["certification_state"][k].clear(), on the list object itself
ClearList(h, a, k) == [h EXCEPT ![h[InnerRef(h, a)].v[k].v].v = <<>>]

OwnTemplates == {EMPTY_STATE, PrefilledBase}
OwnPageLists == {<<>>, <<PyStr(urlA)>>, <<PyStr(urlA), PyStr(urlB)>>}
\* what validate_state_shape returned for a page
OwnCandidates == {PrefilledCand}
OwnStamps == {PyStr(sStampB)}

(***************************************************************************)
(* State                                                                   *)
(***************************************************************************)
\* merge_cert_state called on values
VARIABLES m_pc, m_base, m_cand, m_prefer, m_url, m_out, m_out2
\* merge_cert_state called on objects
VARIABLES h_pc, heap, base_ref, cand_ref, out_ref, h_prefer, h_url,
          base_before, cand_before
\* validate_state_shape called on an object, and on what it returned
VARIABLES v_pc, v_obj, v_res, v_res2
\* ingest_pages_token_aware and the functions it calls
VARIABLES pc, pages, idx, state, initial_state, prefer_overwrite,
          model_context_tokens, reserve_for_output, system_rules, max_retries,
          messages, attempt, candidate, raw, calls, outcomes
\* what each page of the first run gave to the merge (its validated candidate,
\* None for a skipped page), the number of the run, and the state the first
\* run returned
VARIABLES contributed, run, previous_final
\* the delays call_llm_json has slept through for the page at hand, in
\* milliseconds
VARIABLES slept
\* extract_json_or_none called on a text
VARIABLES x_pc, x_text, x_out
\* chunk_content: its arguments, its locals and the paragraph it is at
VARIABLES k_pc, content, chunk_size, paragraphs, p_idx, chunks, current_chunk,
          current_tokens
\* ingest_pages_token_aware called on objects: the heap, the caller's
\* template and the value it had at first, the accumulator, the pages not yet
\* gone through, the states returned so far
VARIABLES o_pc, o_heap, template, template_before, o_state, o_left, results,
          o_prefer

mergeVars == <<m_pc, m_base, m_cand, m_prefer, m_url, m_out, m_out2>>
heapVars == <<h_pc, heap, base_ref, cand_ref, out_ref, h_prefer, h_url,
              base_before, cand_before>>
ingestVars == <<pc, pages, idx, state, initial_state, prefer_overwrite,
                model_context_tokens, reserve_for_output, system_rules, max_retries,
                messages, attempt, candidate, raw, calls, outcomes,
                contributed, run, previous_final, slept>>
validateVars == <<v_pc, v_obj, v_res, v_res2>>
extractVars == <<x_pc, x_text, x_out>>
chunkVars == <<k_pc, content, chunk_size, paragraphs, p_idx, chunks, current_chunk,
               current_tokens>>
ownVars == <<o_pc, o_heap, template, template_before, o_state, o_left, results,
             o_prefer>>
utilVars == <<extractVars, chunkVars, ownVars>>
vars == <<mergeVars, heapVars, validateVars, ingestVars, utilVars>>

(***************************************************************************)
(* extract_json_or_none applied to a drawn text                            *)
(***************************************************************************)
ExtractOff == x_pc = "off" /\ x_text = <<>> /\ x_out = None

ExtractInit == x_pc = "text" /\ x_text \in Texts /\ x_out = None

(***************************************************************************)
(* chunk_content applied to a drawn content, one paragraph at a step       *)
(***************************************************************************)
ChunkOff ==
    /\ k_pc = "off" /\ content = <<>> /\ chunk_size = 0
    /\ paragraphs = <<>> /\ p_idx = 0
    /\ chunks = <<>> /\ current_chunk = <<>> /\ current_tokens = 0

\* lines 81-86
ChunkInit ==
    /\ k_pc = "loop"
    /\ content \in Contents
    /\ chunk_size \in ChunkSizes
    /\ paragraphs = SplitParagraphs(content)
    /\ p_idx = 1
    /\ chunks = <<>> /\ current_chunk = <<>> /\ current_tokens = 0

OwnOff ==
    /\ o_pc = "off" /\ o_heap = <<>> /\ template = 0
    /\ template_before = EMPTY_STATE /\ o_state = 0 /\ o_left = <<>>
    /\ results = <<>> /\ o_prefer = FALSE

\* the caller holds its template and has not called yet
OwnInit ==
    /\ o_pc = "caller"
    /\ \E tv \in OwnTemplates :
          /\ o_heap = StoreState(<<>>, tv).heap
          /\ template = StoreState(<<>>, tv).ref
          /\ template_before = tv
    /\ o_state = 0 /\ o_left = <<>> /\ results = <<>>
    /\ o_prefer \in BOOLEAN

UtilOff == ExtractOff /\ ChunkOff /\ OwnOff

(***************************************************************************)
(* validate_state_shape applied to a drawn object, and applied again to    *)
(* the object it returned                                                  *)
(***************************************************************************)
NoResult == [err |-> "not called", val |-> None]

ValidateOff ==
    /\ v_pc = "off" /\ v_obj = None /\ v_res = NoResult /\ v_res2 = NoResult

ValidateInit ==
    /\ v_pc = "args"
    /\ v_obj \in ValidateInputs
    /\ v_res = NoResult /\ v_res2 = NoResult

Validate ==
    /\ v_pc = "args"
    /\ v_res' = validate_state_shape(v_obj)
    /\ v_pc' = "validated"
    /\ UNCHANGED <<v_obj, v_res2>>
    /\ UNCHANGED <<mergeVars, heapVars, ingestVars, utilVars>>

ValidateAgain ==
    /\ v_pc = "validated"
    /\ v_res.err = "none"
    /\ v_res2' = validate_state_shape(v_res.val)
    /\ v_pc' = "validated2"
    /\ UNCHANGED <<v_obj, v_res>>
    /\ UNCHANGED <<mergeVars, heapVars, ingestVars, utilVars>>

NextValidate == Validate \/ ValidateAgain

(***************************************************************************)
(* merge_cert_state applied to drawn arguments, and applied again to its   *)
(* own result with the same candidate                                      *)
(***************************************************************************)
MergeOff ==
    /\ m_pc = "off"
    /\ m_base = EMPTY_STATE /\ m_cand = EMPTY_STATE
    /\ m_prefer = FALSE /\ m_url = None
    /\ m_out = EMPTY_STATE /\ m_out2 = EMPTY_STATE

MergeInit ==
    /\ m_pc = "args"
    /\ \E tp \in Templates, k \in ExercisedScalars \cup ExercisedLists :
         \E bv \in BaseValuesOf(k), cv \in CandValuesOf(k) :
            /\ m_base = WithField(tp[1], k, bv)
            /\ m_cand = WithField(tp[2], k, cv)
    /\ m_prefer \in BOOLEAN
    /\ m_url \in UrlValues
    /\ m_out = EMPTY_STATE /\ m_out2 = EMPTY_STATE

Merge ==
    /\ m_pc = "args"
    /\ m_out' = merge_cert_state(m_base, m_cand, m_prefer, m_url)
    /\ m_pc' = "merged"
    /\ UNCHANGED <<m_base, m_cand, m_prefer, m_url, m_out2>>
    /\ UNCHANGED <<heapVars, validateVars, ingestVars, utilVars>>

MergeAgain ==
    /\ m_pc = "merged"
    /\ m_out2' = merge_cert_state(m_out, m_cand, m_prefer, m_url)
    /\ m_pc' = "merged2"
    /\ UNCHANGED <<m_base, m_cand, m_prefer, m_url, m_out>>
    /\ UNCHANGED <<heapVars, validateVars, ingestVars, utilVars>>

NextMerge == Merge \/ MergeAgain

(***************************************************************************)
(* merge_cert_state called on objects, whose result the caller then        *)
(* changes in place                                                        *)
(***************************************************************************)
HeapOff ==
    /\ h_pc = "off" /\ heap = <<>>
    /\ base_ref = 0 /\ cand_ref = 0 /\ out_ref = 0
    /\ h_prefer = FALSE /\ h_url = None
    /\ base_before = EMPTY_STATE /\ cand_before = EMPTY_STATE

\* the caller holds a base state and a candidate state, two separate objects
HeapInit ==
    /\ h_pc = "args"
    /\ \E bv \in HeapBases, cv \in HeapCands :
          LET sb == StoreState(<<>>, bv)
              sc == StoreState(sb.heap, cv)
          IN /\ heap = sc.heap
             /\ base_ref = sb.ref /\ cand_ref = sc.ref
             /\ base_before = bv /\ cand_before = cv
    /\ out_ref = 0
    /\ h_prefer \in BOOLEAN
    /\ h_url \in UrlValues

\* result = merge_cert_state(base, candidate, prefer_overwrite, url)
MergeCall ==
    /\ h_pc = "args"
    /\ LET r == HeapMerge(heap, base_ref, cand_ref, h_prefer, h_url)
       IN heap' = r.heap /\ out_ref' = r.ref
    /\ h_pc' = "returned"
    /\ UNCHANGED <<base_ref, cand_ref, h_prefer, h_url, base_before, cand_before>>
    /\ UNCHANGED <<mergeVars, validateVars, ingestVars, utilVars>>

\* the caller then changes the returned state in place:
\* result["certification_state"][k] = val, or result["certification_state"][k].append(x)
MutateResult ==
    /\ h_pc = "returned"
    /\ \/ \E k \in ExercisedScalars, val \in {None, PyStr(sUS)} :
             heap' = [heap EXCEPT ![InnerRef(heap, out_ref)].v[k] = val]
       \/ \E k \in ExercisedLists :
             heap' = [heap EXCEPT ![heap[InnerRef(heap, out_ref)].v[k].v].v =
                         Append(@, PyStr(sUS))]
    /\ h_pc' = "mutated"
    /\ UNCHANGED <<base_ref, cand_ref, out_ref, h_prefer, h_url, base_before, cand_before>>
    /\ UNCHANGED <<mergeVars, validateVars, ingestVars, utilVars>>

NextHeap == MergeCall \/ MutateResult

(***************************************************************************)
(* 6) INGESTION LOOP (TOKEN-AWARE)                                         *)
(*                                                                         *)
(* pc is the position in ingest_pages_token_aware: "page" at the head of   *)
(* the loop over pages, "shrink" inside the loop of build_sparse_prompt,   *)
(* "call" inside call_llm_json, "check" at line 477, "merge" at line 485,  *)
(* "done" after the return, "raised" when an exception left the function.  *)
(***************************************************************************)
IngestOff ==
    /\ pc = "off" /\ pages = <<>> /\ idx = 0
    /\ state = EMPTY_STATE /\ initial_state = EMPTY_STATE
    /\ prefer_overwrite = FALSE
    /\ model_context_tokens = 0 /\ reserve_for_output = 0 /\ system_rules = 0
    /\ max_retries = 0
    /\ messages = NoMessages /\ attempt = 0 /\ candidate = None
    /\ raw = NoResponse /\ calls = 0 /\ slept = <<>>
    /\ outcomes = <<>> /\ contributed = <<>>
    /\ run = 0 /\ previous_final = EMPTY_STATE

\* the locals of an iteration before it starts, and the record of a first run
FreshLocals ==
    /\ messages = NoMessages /\ attempt = 0 /\ candidate = None
    /\ raw = NoResponse /\ calls = 0 /\ slept = <<>>
    /\ outcomes = <<>> /\ contributed = <<>>
    /\ run = 1 /\ previous_final = EMPTY_STATE

\* line 457: state = deepcopy(initial_state); line 473: max_retries=2
IngestInit ==
    /\ pc = "page" /\ idx = 1
    /\ pages \in PageLists
    /\ initial_state \in {EMPTY_STATE, PrefilledBase}
    /\ state = initial_state
    /\ prefer_overwrite \in BOOLEAN
    /\ \E cfg \in IngestTokenConfigs :
          model_context_tokens = cfg[1] /\ reserve_for_output = cfg[2]
    /\ system_rules = 100
    /\ max_retries = MaxRetries
    /\ FreshLocals

\* a first run that a second one will follow: from the empty state, as in
\* __main__, under the default budget
RerunInit ==
    /\ pc = "page" /\ idx = 1
    /\ pages \in PageLists
    /\ initial_state = EMPTY_STATE
    /\ state = initial_state
    /\ prefer_overwrite \in BOOLEAN
    /\ model_context_tokens = DefaultTokenConfig[1]
    /\ reserve_for_output = DefaultTokenConfig[2]
    /\ system_rules = 100
    /\ max_retries = MaxRetries
    /\ FreshLocals

\* a run from a state that validate_state_shape returns as it is
ValidatedInitialStates ==
    {s \in {EMPTY_STATE, PrefilledBase, BlankRegionBase} :
        validate_state_shape(s) = [err |-> "none", val |-> s]}

GrowInit ==
    /\ pc = "page" /\ idx = 1
    /\ pages \in PageLists
    /\ initial_state \in ValidatedInitialStates
    /\ state = initial_state
    /\ prefer_overwrite \in BOOLEAN
    /\ model_context_tokens = DefaultTokenConfig[1]
    /\ reserve_for_output = DefaultTokenConfig[2]
    /\ system_rules = 100
    /\ max_retries = MaxRetries
    /\ FreshLocals

\* build_sparse_prompt called on its own, on one page
PromptInit ==
    /\ pc = "page" /\ idx = 1
    /\ pages = <<PyStr(urlA)>>
    /\ initial_state \in {EMPTY_STATE, PrefilledBase}
    /\ state = initial_state
    /\ prefer_overwrite = FALSE
    /\ \E cfg \in PromptTokenConfigs :
          model_context_tokens = cfg[1] /\ reserve_for_output = cfg[2]
    /\ system_rules \in RulesTokens
    /\ max_retries = MaxRetries
    /\ FreshLocals

\* call_llm_json called on its own with a prompt, for each max_retries
CallInit ==
    /\ pc = "call" /\ idx = 1
    /\ pages = <<PyStr(urlA)>>
    /\ initial_state = EMPTY_STATE
    /\ state = initial_state
    /\ prefer_overwrite = FALSE
    /\ model_context_tokens = DefaultTokenConfig[1]
    /\ reserve_for_output = DefaultTokenConfig[2]
    /\ system_rules = 100
    /\ max_retries \in 0..MaxRetriesArg
    /\ \E evidence_block \in IngestEvidence :
          messages = FullPrompt(system_rules, state, evidence_block)
    /\ attempt = 1 /\ candidate = None
    /\ raw = NoResponse /\ calls = 0 /\ slept = <<>>
    /\ outcomes = <<>> /\ contributed = <<>>
    /\ run = 1 /\ previous_final = EMPTY_STATE

\* the arguments of ingest_pages_token_aware, and the record of the run before
argVars == <<pages, initial_state, prefer_overwrite, model_context_tokens,
             reserve_for_output, system_rules, max_retries, run, previous_final>>

\* line 366
Budget == model_context_tokens - reserve_for_output

\* lines 461-468 and 329-376: the prompt is composed; when it is over budget
\* the evidence is trimmed once and the shrinking loop is entered
BuildPromptFrom(pool) ==
    /\ pc = "page" /\ idx <= Len(pages)
    /\ \E evidence_block \in pool :
          LET full == FullPrompt(system_rules, state, evidence_block)
          IN IF count_messages_tokens(full) > Budget
             THEN /\ messages' = TrimmedPrompt(system_rules, state, evidence_block, Budget)
                  /\ pc' = "shrink"
                  /\ UNCHANGED attempt
             ELSE /\ messages' = full
                  /\ pc' = "call"
                  /\ attempt' = 1
    /\ UNCHANGED <<argVars, idx, state, candidate, raw, calls, slept, outcomes, contributed>>
    /\ UNCHANGED <<mergeVars, heapVars, validateVars, utilVars>>

BuildPrompt == BuildPromptFrom(IngestEvidence)

ComposePrompt == BuildPromptFrom(EvidenceBlocks)

\* line 459: the text of a page is the same each time the page is gone through
PageEvidence(p) == IF p = PyStr(urlA) THEN <<300>> ELSE <<300, 300>>

BuildPromptOfPage == BuildPromptFrom({PageEvidence(pages[idx])})

\* lines 377-379: one iteration of the shrinking loop
ShrinkStep ==
    /\ pc = "shrink"
    /\ OverBudget(messages, Budget)
    /\ messages' = [messages EXCEPT !.ev = ShrunkEvidence(@)]
    /\ UNCHANGED <<argVars, pc, idx, state, attempt, candidate, raw, calls, slept,
                   outcomes, contributed>>
    /\ UNCHANGED <<mergeVars, heapVars, validateVars, utilVars>>

\* lines 377, 381-382: the loop is left and the prompt returned
ReturnPrompt ==
    /\ pc = "shrink"
    /\ ~OverBudget(messages, Budget)
    /\ pc' = "call"
    /\ attempt' = 1
    /\ UNCHANGED <<argVars, idx, state, messages, candidate, raw, calls, slept,
                   outcomes, contributed>>
    /\ UNCHANGED <<mergeVars, heapVars, validateVars, utilVars>>

\* line 428: client.chat.completions.create raises; nothing in call_llm_json
\* or in ingest_pages_token_aware catches it
LLMRaises ==
    /\ pc = "call"
    /\ pc' = "raised"
    /\ calls' = calls + 1
    /\ UNCHANGED <<argVars, idx, state, messages, attempt, candidate, raw,
                   outcomes, contributed, slept>>
    /\ UNCHANGED <<mergeVars, heapVars, validateVars, utilVars>>

\* lines 477-484: what a returned object gives to the merge
Contribution(parsed) ==
    IF Truthy(parsed) /\ validate_state_shape(parsed).err = "none"
    THEN validate_state_shape(parsed).val
    ELSE None

\* in a second run over the same pages the service is taken to answer so that
\* each page yields the candidate it yielded in the first run
SameAsFirstRun(parsed, last) ==
    IF run = 1 THEN TRUE
    ELSE IF ~IsNone(parsed) THEN Contribution(parsed) = contributed[idx]
    ELSE IF last THEN IsNone(contributed[idx])
    ELSE TRUE

\* lines 428-442: one attempt that gets a response
LLMRespondsFrom(pool) ==
    /\ pc = "call"
    /\ calls' = calls + 1
    /\ \E response \in pool :
          LET parsed == extract_json_or_none(response)
          IN /\ SameAsFirstRun(parsed, ~MayRetry(attempt, max_retries))
             /\ raw' = response
             /\ IF ~IsNone(parsed)
                THEN /\ candidate' = parsed
                     /\ pc' = "check"
                     /\ UNCHANGED <<messages, attempt, slept>>
                ELSE IF MayRetry(attempt, max_retries)
                THEN /\ slept' = Append(slept, RetryDelay(attempt))
                     /\ messages' = CorrectiveMessages
                     /\ attempt' = attempt + 1
                     /\ UNCHANGED <<pc, candidate>>
                ELSE /\ candidate' = None
                     /\ pc' = "check"
                     /\ UNCHANGED <<messages, attempt, slept>>
    /\ UNCHANGED <<argVars, idx, state, outcomes, contributed>>
    /\ UNCHANGED <<mergeVars, heapVars, validateVars, utilVars>>

LLMResponds == LLMRespondsFrom(LLMResponses)

\* the answers of the service in the two runs
LLMAnswers == LLMRespondsFrom(RerunResponses)

\* the answers of the service to a run from a validated state
LLMReplies == LLMRespondsFrom(GrowResponses)

\* the next iteration of the loop over pages begins: the locals of this one
\* are dead
NextPage(outcome, given) ==
    /\ pc' = "page"
    /\ idx' = idx + 1
    /\ outcomes' = Append(outcomes, outcome)
    /\ contributed' = IF run = 1 THEN Append(contributed, given) ELSE contributed
    /\ messages' = NoMessages /\ attempt' = 0 /\ candidate' = None
    /\ raw' = NoResponse /\ calls' = 0 /\ slept' = <<>>

\* lines 477-479
SkipNoCandidate ==
    /\ pc = "check"
    /\ ~Truthy(candidate)
    /\ NextPage("invalid JSON/state", None)
    /\ UNCHANGED <<argVars, state>>
    /\ UNCHANGED <<mergeVars, heapVars, validateVars, utilVars>>

\* a validation whose exception nothing catches
ValidateCandidateUncaught ==
    /\ pc = "check"
    /\ Truthy(candidate)
    /\ IF validate_state_shape(candidate).err # "none"
       THEN /\ pc' = "raised"
            /\ UNCHANGED <<idx, outcomes, messages, attempt, candidate, raw, calls, slept,
                           contributed>>
       ELSE /\ candidate' = validate_state_shape(candidate).val
            /\ pc' = "merge"
            /\ UNCHANGED <<idx, outcomes, messages, attempt, raw, calls, slept, contributed>>
    /\ UNCHANGED <<argVars, state>>
    /\ UNCHANGED <<mergeVars, heapVars, validateVars, utilVars>>

\* lines 480-484
ValidateCandidate ==
    /\ pc = "check"
    /\ Truthy(candidate)
    /\ IF validate_state_shape(candidate).err # "none"
       THEN NextPage("schema fail", None)
       ELSE /\ candidate' = validate_state_shape(candidate).val
            /\ pc' = "merge"
            /\ UNCHANGED <<idx, outcomes, messages, attempt, raw, calls, slept, contributed>>
    /\ UNCHANGED <<argVars, state>>
    /\ UNCHANGED <<mergeVars, heapVars, validateVars, utilVars>>

\* line 485
MergePage ==
    /\ pc = "merge"
    /\ state' = merge_cert_state(state, candidate, prefer_overwrite, pages[idx])
    /\ NextPage("merged", candidate)
    /\ UNCHANGED argVars
    /\ UNCHANGED <<mergeVars, heapVars, validateVars, utilVars>>

\* a return that hands back a new empty record
FinishFromTemplate ==
    /\ pc = "page" /\ idx > Len(pages)
    /\ \E now \in Timestamps : state' = WithField(EMPTY_STATE, "updated_at", now)
    /\ pc' = "done"
    /\ UNCHANGED <<argVars, idx, messages, attempt, candidate, raw, calls, slept,
                   outcomes, contributed>>
    /\ UNCHANGED <<mergeVars, heapVars, validateVars, utilVars>>

\* lines 487-489
Finish ==
    /\ pc = "page" /\ idx > Len(pages)
    /\ \E now \in Timestamps : state' = WithField(state, "updated_at", now)
    /\ pc' = "done"
    /\ UNCHANGED <<argVars, idx, messages, attempt, candidate, raw, calls, slept,
                   outcomes, contributed>>
    /\ UNCHANGED <<mergeVars, heapVars, validateVars, utilVars>>

\* the pipeline is run again: ingest_pages_token_aware is called with the state
\* the first run returned as initial_state, and the same pages
RunAgain ==
    /\ pc = "done" /\ run = 1
    /\ run' = 2
    /\ previous_final' = state
    /\ initial_state' = state
    /\ state' = state
    /\ pc' = "page" /\ idx' = 1
    /\ outcomes' = <<>>
    /\ UNCHANGED <<pages, prefer_overwrite, model_context_tokens, reserve_for_output,
                   system_rules, max_retries, messages, attempt, candidate, raw,
                   calls, slept, contributed>>
    /\ UNCHANGED <<mergeVars, heapVars, validateVars, utilVars>>

\* line 457: ingest_pages_token_aware(initial_state=template, pages=...)
IngestCalled ==
    /\ o_pc = "caller" /\ Len(results) < MaxRuns
    /\ \E pl \in OwnPageLists : o_left' = pl
    /\ LET cp == deepcopy(o_heap, template)
       IN o_heap' = cp.heap /\ o_state' = cp.ref
    /\ o_pc' = "loop"
    /\ UNCHANGED <<template, template_before, results, o_prefer>>
    /\ UNCHANGED <<mergeVars, heapVars, validateVars, ingestVars, extractVars, chunkVars>>

\* lines 481 and 485: validate_state_shape returns a new object, which is
\* merged into the accumulator
PageMerged ==
    /\ o_pc = "loop" /\ o_left # <<>>
    /\ \E cv \in OwnCandidates :
          LET sc == StoreState(o_heap, cv)
              r == HeapMerge(sc.heap, o_state, sc.ref, o_prefer, Head(o_left))
          IN o_heap' = r.heap /\ o_state' = r.ref
    /\ o_left' = Tail(o_left)
    /\ UNCHANGED <<o_pc, template, template_before, results, o_prefer>>
    /\ UNCHANGED <<mergeVars, heapVars, validateVars, ingestVars, extractVars, chunkVars>>

\* lines 477-479 and 482-484: continue
PageSkipped ==
    /\ o_pc = "loop" /\ o_left # <<>>
    /\ o_left' = Tail(o_left)
    /\ UNCHANGED <<o_pc, o_heap, template, template_before, o_state, results, o_prefer>>
    /\ UNCHANGED <<mergeVars, heapVars, validateVars, ingestVars, extractVars, chunkVars>>

\* lines 487-489: the copy is stamped in place and returned
IngestReturns ==
    /\ o_pc = "loop" /\ o_left = <<>>
    /\ \E now \in OwnStamps :
          LET cp == deepcopy(o_heap, o_state)
          IN /\ o_heap' = SetItem(cp.heap, cp.ref, "updated_at", now)
             /\ results' = Append(results, cp.ref)
    /\ o_state' = 0
    /\ o_pc' = "caller"
    /\ UNCHANGED <<template, template_before, o_left, o_prefer>>
    /\ UNCHANGED <<mergeVars, heapVars, validateVars, ingestVars, extractVars, chunkVars>>

\* the caller changes the state it was last returned, in place:
\* final_state["certification_state"]["name"] = ..., and ["sources"].clear()
CallerChangesResult ==
    /\ o_pc = "caller" /\ results # <<>>
    /\ LET last == results[Len(results)]
       IN /\ LoadState(o_heap, last).certification_state["name"] # PyStr(sUS)
          /\ o_heap' = ClearList(SetItem(o_heap, last, "name", PyStr(sUS)),
                                 last, "sources")
    /\ UNCHANGED <<o_pc, template, template_before, o_state, o_left, results, o_prefer>>
    /\ UNCHANGED <<mergeVars, heapVars, validateVars, ingestVars, extractVars, chunkVars>>

\* extract_json_or_none
Extract ==
    /\ x_pc = "text"
    /\ x_out' = ExtractJsonText(x_text)
    /\ x_pc' = "returned"
    /\ UNCHANGED x_text
    /\ UNCHANGED <<mergeVars, heapVars, validateVars, ingestVars, chunkVars, ownVars>>

\* lines 88-99: the body of the loop, for paragraphs[p_idx]
ChunkParagraph ==
    /\ k_pc = "loop" /\ p_idx <= Len(paragraphs)
    /\ LET paragraph == paragraphs[p_idx]
           para_tokens == count_tokens(paragraph)
       IN IF Overflows(current_tokens, para_tokens, chunk_size)
          THEN /\ chunks' = IF current_chunk # <<>>
                            THEN Append(chunks, JoinParagraphs(current_chunk))
                            ELSE chunks
               /\ current_chunk' = <<paragraph>>
               /\ current_tokens' = para_tokens
          ELSE /\ current_chunk' = Append(current_chunk, paragraph)
               /\ current_tokens' = current_tokens + para_tokens
               /\ UNCHANGED chunks
    /\ p_idx' = p_idx + 1
    /\ UNCHANGED <<k_pc, content, chunk_size, paragraphs>>
    /\ UNCHANGED <<mergeVars, heapVars, validateVars, ingestVars, extractVars, ownVars>>

\* lines 101-105
ChunkReturn ==
    /\ k_pc = "loop" /\ p_idx > Len(paragraphs)
    /\ chunks' = IF current_chunk # <<>>
                 THEN Append(chunks, JoinParagraphs(current_chunk))
                 ELSE chunks
    /\ k_pc' = "returned"
    /\ UNCHANGED <<content, chunk_size, paragraphs, p_idx, current_chunk, current_tokens>>
    /\ UNCHANGED <<mergeVars, heapVars, validateVars, ingestVars, extractVars, ownVars>>

(***************************************************************************)
(* Specifications                                                          *)
(***************************************************************************)
Init == IngestInit /\ MergeOff /\ HeapOff /\ ValidateOff /\ UtilOff

Next ==
    \/ BuildPrompt
    \/ ShrinkStep
    \/ ReturnPrompt
    \/ LLMRaises
    \/ LLMResponds
    \/ SkipNoCandidate
    \/ ValidateCandidate
    \/ MergePage
    \/ Finish

\* ingest_pages_token_aware
Spec == Init /\ [][Next]_vars

InitRerun == RerunInit /\ MergeOff /\ HeapOff /\ ValidateOff /\ UtilOff

\* under the default budget no prompt of these pages is over budget: the loop
\* of build_sparse_prompt is never entered
NextRerun ==
    \/ BuildPromptOfPage
    \/ LLMRaises
    \/ LLMAnswers
    \/ SkipNoCandidate
    \/ ValidateCandidate
    \/ MergePage
    \/ Finish
    \/ RunAgain

\* ingest_pages_token_aware, called again on the state it returned
SpecRerun == InitRerun /\ [][NextRerun]_vars

InitGrow == GrowInit /\ MergeOff /\ HeapOff /\ ValidateOff /\ UtilOff

NextGrow ==
    \/ BuildPromptOfPage
    \/ LLMRaises
    \/ LLMReplies
    \/ SkipNoCandidate
    \/ ValidateCandidate
    \/ MergePage
    \/ Finish

\* ingest_pages_token_aware from a validated initial state
SpecGrow == InitGrow /\ [][NextGrow]_vars

InitOwn ==
    OwnInit /\ ExtractOff /\ ChunkOff /\ MergeOff /\ HeapOff /\ ValidateOff /\ IngestOff

NextOwn ==
    \/ IngestCalled
    \/ PageMerged
    \/ PageSkipped
    \/ IngestReturns
    \/ CallerChangesResult

\* runs of ingest_pages_token_aware from one template, on objects
SpecOwn == InitOwn /\ [][NextOwn]_vars

InitExtract == ExtractInit /\ ChunkOff /\ OwnOff /\ MergeOff /\ HeapOff /\ ValidateOff /\ IngestOff

NextExtract == Extract

\* extract_json_or_none
SpecExtract == InitExtract /\ [][NextExtract]_vars

InitChunk == ChunkInit /\ ExtractOff /\ OwnOff /\ MergeOff /\ HeapOff /\ ValidateOff /\ IngestOff

NextChunk == ChunkParagraph \/ ChunkReturn

\* TokenManager.chunk_content
SpecChunk == InitChunk /\ [][NextChunk]_vars

InitPrompt == PromptInit /\ MergeOff /\ HeapOff /\ ValidateOff /\ UtilOff

NextPrompt == ComposePrompt \/ ShrinkStep \/ ReturnPrompt

\* build_sparse_prompt
SpecPrompt == InitPrompt /\ [][NextPrompt]_vars

InitMerge == MergeInit /\ HeapOff /\ IngestOff /\ ValidateOff /\ UtilOff

InitCall == CallInit /\ MergeOff /\ HeapOff /\ ValidateOff /\ UtilOff

NextCall == LLMRaises \/ LLMResponds

\* call_llm_json
SpecCall == InitCall /\ [][NextCall]_vars

\* merge_cert_state on values
SpecMerge == InitMerge /\ [][NextMerge]_vars

InitHeap == HeapInit /\ MergeOff /\ IngestOff /\ ValidateOff /\ UtilOff

\* merge_cert_state on objects
SpecHeap == InitHeap /\ [][NextHeap]_vars

InitValidate == ValidateInit /\ MergeOff /\ HeapOff /\ IngestOff /\ UtilOff

\* validate_state_shape
SpecValidate == InitValidate /\ [][NextValidate]_vars

(***************************************************************************)
(* Properties of merge_cert_state (SpecMerge)                              *)
(***************************************************************************)
Merged == m_pc \in {"merged", "merged2"}
mb == m_base.certification_state
mc == m_cand.certification_state
mo == m_out.certification_state

\* C6 as stated, with null as the only empty scalar: under fill-only merge a
\* base scalar that is not null is returned unchanged.
C6_NullOnlyEmpty ==
    (Merged /\ ~m_prefer) =>
        \A k \in SCALAR_FIELDS :
            (IsStr(mb[k]) \/ IsBool(mb[k]) \/ IsIntOrFloat(mb[k])) => mo[k] = mb[k]

\* C6 amended: under fill-only merge (prefer_overwrite = false) every scalar field
\* of base whose value is non-empty, a value being empty when it is null, the empty
\* string, an empty list or an empty dict, holds the base's value in the result,
\* whatever the candidate holds.
C6_FillOnlyKeepsFilledScalars ==
    (Merged /\ ~m_prefer) =>
        \A k \in SCALAR_FIELDS :
            (~IsNone(mb[k]) /\ mb[k] \notin {PyStr(<<>>), PyList(<<>>), EmptyDict})
                => mo[k] = mb[k]

C6_Witness ==
    /\ Merged /\ ~m_prefer
    /\ \E k \in SCALAR_FIELDS :
          /\ ~IsNone(mb[k]) /\ mb[k] # PyStr(<<>>)
          /\ ~IsNone(mc[k]) /\ mc[k] # PyStr(<<>>) /\ mc[k] # mb[k]
          /\ mo[k] = mb[k]

\* C7: merging the same candidate again, with the same flag and url, into the
\* result of a merge gives that result again, in every list field (sources
\* included) and every scalar field.
C7_MergeIdempotent ==
    (m_pc = "merged2") =>
        \A k \in ALL_FIELDS :
            m_out2.certification_state[k] = m_out.certification_state[k]

C7_Witness ==
    /\ m_pc = "merged2"
    /\ Truthy(m_url) /\ m_prefer
    /\ mo["sources"] # mb["sources"]
    /\ \E k \in ExercisedLists : mc[k].v # <<>> /\ mo[k] # mb[k]
    /\ \E k \in SCALAR_FIELDS : mo[k] # mb[k]

\* C9 as stated, with null as the only empty scalar: with prefer_overwrite =
\* true every scalar field of the result holds the candidate's value when that
\* value is a string, a bool or a number.
C9_NonNullCandidateIsTaken ==
    (Merged /\ m_prefer) =>
        \A k \in SCALAR_FIELDS :
            (IsStr(mc[k]) \/ IsBool(mc[k]) \/ IsIntOrFloat(mc[k])) => mo[k] = mc[k]

\* C9 amended: with prefer_overwrite = true every scalar field of the result
\* holds the candidate's value when that value is non-empty and the base's value
\* when it is empty, a value being empty when it is null, the empty string, an
\* empty list or an empty dict; and in either mode an empty candidate value
\* leaves the base's value in place.
C9_OverwriteTakesNonEmptyCandidate ==
    Merged =>
        \A k \in SCALAR_FIELDS :
            LET cEmpty == IsNone(mc[k]) \/ mc[k] \in {PyStr(<<>>), PyList(<<>>), EmptyDict}
            IN /\ (m_prefer /\ ~cEmpty) => mo[k] = mc[k]
               /\ cEmpty => mo[k] = mb[k]

C9_Witness ==
    /\ Merged /\ m_prefer
    /\ \E k \in SCALAR_FIELDS :
          ~_is_empty(mb[k]) /\ ~_is_empty(mc[k]) /\ mc[k] # mb[k] /\ mo[k] = mc[k]
    /\ \E k \in SCALAR_FIELDS :
          ~_is_empty(mb[k]) /\ _is_empty(mc[k]) /\ mo[k] = mb[k]

\* the trimmed non-empty strings of a list of elements
TrimmedStrings(src) ==
    {Strip(src[i].v) : i \in {j \in 1..Len(src) : IsStr(src[j]) /\ Strip(src[j].v) # <<>>}}

FirstPos(src, str) ==
    CHOOSE i \in 1..Len(src) :
        /\ IsStr(src[i]) /\ Strip(src[i].v) = str
        /\ \A j \in 1..(i - 1) : ~(IsStr(src[j]) /\ Strip(src[j].v) = str)

\* res is the deduplicated union of the elements src: every trimmed non-empty
\* string of src once, nothing else, in the order of first appearance
IsDedupedUnion(res, src) ==
    /\ \A i \in 1..Len(res) : IsStr(res[i]) /\ res[i].v \in TrimmedStrings(src)
    /\ \A str \in TrimmedStrings(src) : \E i \in 1..Len(res) : res[i].v = str
    /\ \A i, j \in 1..Len(res) : i < j =>
          /\ res[i] # res[j]
          /\ FirstPos(src, res[i].v) < FirstPos(src, res[j].v)

\* C10 as stated: every list field of the result, sources included, is the
\* deduplicated union of the base list followed by the candidate list.
C10_EveryListIsUnionOfBaseAndCandidate ==
    Merged =>
        \A k \in LIST_STRING_FIELDS : IsDedupedUnion(mo[k].v, mb[k].v \o mc[k].v)

\* C10 amended: every list field of the result is the deduplicated union
\* (elements trimmed, non-strings and empty strings dropped, exact case-sensitive
\* match, first occurrence kept in first-seen order) of the base list followed by
\* the candidate list, followed for sources by the page url when one is given;
\* no element appears twice in any list field of the result.
C10_ListsAreDedupedUnion ==
    Merged =>
        \A k \in LIST_STRING_FIELDS :
            IsDedupedUnion(mo[k].v,
                mb[k].v \o mc[k].v \o
                    (IF k = "sources" /\ ~IsNone(m_url) THEN <<m_url>> ELSE <<>>))

C10_Witness ==
    /\ Merged
    /\ mb["aliases"] = PyList(<<PyStr(sLead)>>)
    /\ mc["aliases"] = PyList(<<PyStr(slead)>>)
    /\ mo["aliases"] = PyList(<<PyStr(sLead), PyStr(slead)>>)

(***************************************************************************)
(* Properties of merge_cert_state on objects (SpecHeap)                    *)
(***************************************************************************)
\* C8: merge does not mutate its arguments: once it has returned, and after
\* any later change made to the returned state, base and candidate hold in
\* every field the values they held before the call.
C8_MergeLeavesArgumentsAlone ==
    (h_pc \in {"returned", "mutated"}) =>
        /\ LoadState(heap, base_ref) = base_before
        /\ LoadState(heap, cand_ref) = cand_before

C8_Witness ==
    /\ h_pc = "mutated"
    /\ LoadState(heap, out_ref) # merge_cert_state(base_before, cand_before, h_prefer, h_url)
    /\ merge_cert_state(base_before, cand_before, h_prefer, h_url) # base_before
    /\ base_before # EMPTY_STATE

(***************************************************************************)
(* Properties of ingest_pages_token_aware (Spec)                           *)
(***************************************************************************)
\* C1: a page whose response yields no JSON object after all retries, or
\* whose candidate fails validation, is skipped: the step taken from line 477
\* leaves the accumulator as it was and goes to the head of the loop at the
\* next page of the same page list; the run is not ended by it.
C1_FailedPageIsSkipped ==
    [][(pc = "check" /\ (~Truthy(candidate)
                            \/ validate_state_shape(candidate).err # "none"))
          => (state' = state /\ pc' = "page" /\ idx' = idx + 1 /\ pages' = pages)]_vars

C1_Witness ==
    /\ pc = "done"
    /\ Len(outcomes) = 2
    /\ outcomes[1] \in {"invalid JSON/state", "schema fail"}
    /\ outcomes[2] = "merged"
    /\ state.certification_state["name"] = PyStr(sRoHS)

\* C2: an exception raised by the completion client never ends a run of
\* ingest: no run reaches the position where an exception has left
\* ingest_pages_token_aware.
C2_LLMFailureNeverEndsRun == pc # "raised"

\* C3: with a budget of zero or less, ingest stops before the first page: no
\* prompt is built, no page is gone through and no state is returned.
C3_InconsistentBudgetStopsBeforePages ==
    (Budget <= 0) => (pc = "page" /\ idx = 1 /\ messages = NoMessages)

(***************************************************************************)
(* Properties of build_sparse_prompt (SpecPrompt)                          *)
(***************************************************************************)
\* C4: the message list build_sparse_prompt returns counts at most
\* max_total_tokens - reserve_for_output tokens.
C4_ReturnedPromptWithinBudget ==
    (pc = "call") => count_messages_tokens(messages) <= Budget

C4_Witness ==
    /\ pc = "call"
    /\ messages.kind = "trimmed"
    /\ messages.ev = <<3510>>
    /\ Budget = 5000

\* C5: every iteration of the shrinking loop makes the evidence strictly
\* smaller in tokens: whenever the loop is about to run once more, the
\* evidence it will hold after that iteration counts fewer tokens than the
\* evidence it holds now.
C5_EachIterationShrinksEvidence ==
    (pc = "shrink" /\ OverBudget(messages, Budget)) =>
        count_text_tokens(ShrunkEvidence(messages.ev)) < count_text_tokens(messages.ev)

(***************************************************************************)
(* Properties of validate_state_shape (SpecValidate)                       *)
(***************************************************************************)
Validated == v_pc \in {"validated", "validated2"}
HasInnerDict(o) ==
    IsDict(o) /\ "certification_state" \in DOMAIN o /\ IsDict(o.certification_state)
HasExactKeys(o) == HasInnerDict(o) /\ DOMAIN o.certification_state = ALL_FIELDS

\* C11: validate fails with the keys-mismatch error on every object whose
\* inner key set is not exactly the fixed field set, whatever its values are
\* (the keys are looked at before any value is coerced or rejected); it fails
\* on every object without an inner dict; and a state it returns has exactly
\* the fixed key set.
C11_KeyMismatchFailsFirst ==
    Validated =>
        /\ (HasInnerDict(v_obj) /\ ~HasExactKeys(v_obj)) => v_res.err = ErrKeys
        /\ ~HasInnerDict(v_obj) => v_res.err \in {ErrTopLevel, ErrNoKeys}
        /\ v_res.err = "none" => HasExactKeys(v_res.val)

C11_Witness ==
    /\ Validated
    /\ HasInnerDict(v_obj)
    /\ "fee" \notin DOMAIN v_obj.certification_state
    /\ "fees" \notin DOMAIN v_obj.certification_state
    /\ v_obj.certification_state["mandatory"] = PyStr(sYes)
    /\ v_res.err = ErrKeys

\* C12: validate applied to an object it returned succeeds and returns an
\* equal object.
C12_ValidateIdempotent ==
    (v_pc = "validated2") => (v_res2.err = "none" /\ v_res2.val = v_res.val)

C12_Witness ==
    /\ v_pc = "validated2"
    /\ v_obj.certification_state["aliases"] = PyList(<<PyStr(sLead), PyStr(sPadLead)>>)
    /\ v_res.val.certification_state["aliases"] = PyList(<<PyStr(sLead)>>)

\* s is w written in any letter case (w in lower case)
EqualsIgnoringCase(s, w) ==
    /\ Len(s) = Len(w)
    /\ \A i \in 1..Len(w) :
          \/ s[i] = w[i]
          \/ \E j \in 1..Len(LowerCase) : LowerCase[j] = w[i] /\ UpperCase[j] = s[i]

\* C13: for the field mandatory validate leaves null and booleans as they
\* are, turns a string equal to "true" or "false" in any letter case into the
\* matching boolean, and fails with the must-be-boolean error on every other
\* value.
C13_BoolFieldCoercion ==
    (Validated /\ HasExactKeys(v_obj)) =>
        LET val == v_obj.certification_state["mandatory"]
            isTrue == IsStr(val) /\ EqualsIgnoringCase(val.v, sTrue)
            isFalse == IsStr(val) /\ EqualsIgnoringCase(val.v, sFalse)
        IN IF IsNone(val) \/ IsBool(val) \/ isTrue \/ isFalse
           THEN /\ v_res.err # ErrBool
                /\ v_res.err = "none" =>
                      v_res.val.certification_state["mandatory"] =
                          (IF isTrue THEN PyBool(TRUE)
                           ELSE IF isFalse THEN PyBool(FALSE) ELSE val)
           ELSE v_res.err = ErrBool

C13_Witness ==
    /\ Validated
    /\ HasExactKeys(v_obj)
    /\ v_obj.certification_state["mandatory"] = PyStr(sTRUE)
    /\ v_res.err = "none"
    /\ v_res.val.certification_state["mandatory"] = PyBool(TRUE)

\* s has the form: optional "-", digits, optionally "." and digits
NumberForm(s) ==
    LET u == IF s # <<>> /\ s[1] = "-" THEN Tail(s) ELSE s
    IN \E n \in 1..Len(u) :
          /\ AllDigits(SubSeq(u, 1, n))
          /\ \/ n = Len(u)
             \/ u[n + 1] = "." /\ AllDigits(SubSeq(u, n + 2, Len(u)))

HasPoint(s) == \E i \in 1..Len(s) : s[i] = "."

\* what a number field of the returned state holds for the value val, a
\* string being read by form(s): null and numbers as they are, a string of
\* the number form as an integer (no point) or a float (a point), an error
\* for anything else
NumberFieldRule(val, out, err, form(_)) ==
    IF IsNone(val) \/ IsIntOrFloat(val)
    THEN err # ErrNumber /\ (err = "none" => out = val)
    ELSE IF IsStr(val) /\ form(val.v)
    THEN /\ err # ErrNumber
         /\ err = "none" => out.t = (IF HasPoint(val.v) THEN "float" ELSE "int")
    ELSE err = ErrNumber

OutField(k) == IF v_res.err = "none" THEN v_res.val.certification_state[k] ELSE None

ResponseReceived == calls' = calls + 1 /\ pc' # "raised"

\* C15: call_llm_json invokes the service at most max_retries + 1 times for
\* one prompt; the first response from which extract_json_or_none gets an
\* object ends the call and that object is returned; a response without an
\* object leads to another attempt while fewer than max_retries + 1 were
\* made, and after max_retries + 1 of them the call returns None, normally.
C15_BoundedAttemptsFirstObjectWins ==
    /\ [](calls <= max_retries + 1)
    /\ [][ResponseReceived =>
            LET parsed == extract_json_or_none(raw')
            IN IF ~IsNone(parsed)
               THEN pc' = "check" /\ candidate' = parsed
               ELSE IF calls' < max_retries + 1
               THEN pc' = "call"
               ELSE pc' = "check" /\ candidate' = None]_vars

\* every attempt allowed by max_retries = 2 was made, none gave an object, and
\* the call returned None
C15_Witness ==
    /\ pc = "check" /\ max_retries = 2 /\ calls = 3
    /\ IsNone(extract_json_or_none(raw))
    /\ IsNone(candidate)

(***************************************************************************)
(* ingest_pages_token_aware: what the pages give to the final state        *)
(***************************************************************************)
\* the first page, in input order, whose validated candidate holds for field
\* k a value that is not empty(_); 0 when no page does
EarliestPageWith(k, empty(_)) ==
    LET holders == {i \in 1..Len(contributed) :
                       /\ IsDict(contributed[i])
                       /\ ~empty(contributed[i].certification_state[k])}
    IN IF holders = {} THEN 0
       ELSE CHOOSE i \in holders : \A j \in holders : i <= j

\* field k of the accumulator holds what the earliest page with a value for
\* it gave, and the initial value when no page has one
HoldsEarliestValue(k, empty(_)) ==
    LET i == EarliestPageWith(k, empty)
    IN state.certification_state[k] =
          IF i = 0 THEN initial_state.certification_state[k]
          ELSE contributed[i].certification_state[k]

\* C16 as stated, with null as the empty value of a scalar: in the state a
\* fill-only run returns, every scalar field that was null in the initial
\* state holds the value of the earliest page whose candidate has a non-null
\* value for it.
C16_EarliestNonNullValueWins ==
    (pc = "done" /\ ~prefer_overwrite) =>
        \A k \in SCALAR_FIELDS :
            IsNone(initial_state.certification_state[k]) =>
                HoldsEarliestValue(k, IsNone)

\* C16: pages are gone through one by one in input order (page idx is at work
\* when exactly the idx - 1 pages before it have had their outcome), and in a
\* fill-only run, after every page and in the returned state, a scalar field
\* that was empty in the initial state holds the value of the earliest page
\* whose validated candidate has a non-empty value for it, where null, "",
\* [] and {} are empty; updated_at of the returned state is the stamp.
C16_EarliestNonEmptyValueWins ==
    /\ (pc \in {"page", "shrink", "call", "check", "merge"} /\ run = 1) =>
           /\ Len(outcomes) = idx - 1
           /\ Len(contributed) = idx - 1
    /\ (pc \in {"page", "done"} /\ run = 1 /\ ~prefer_overwrite) =>
           \A k \in SCALAR_FIELDS :
               (/\ _is_empty(initial_state.certification_state[k])
                /\ ~(pc = "done" /\ k = "updated_at")) =>
                   HoldsEarliestValue(k, _is_empty)

\* two pages gave different regions and the returned state has the first one
C16_Witness ==
    /\ pc = "done" /\ ~prefer_overwrite /\ Len(pages) = 2
    /\ initial_state = EMPTY_STATE
    /\ contributed = <<CandA, ScenarioB>>
    /\ state.certification_state["region"] = PyStr(sUS)
    /\ state.certification_state["mandatory"] = PyBool(TRUE)

\* no page of the run so far was merged: each one was skipped, or there is none
EveryPageSkipped == \A i \in 1..Len(outcomes) : outcomes[i] # "merged"

\* C17: a run whose pages are all skipped, or that has no page, leaves the
\* accumulator equal to the initial state, and returns a state that equals
\* the initial state in every field but updated_at, which holds the stamp.
C17_AllSkippedReturnsInitialState ==
    /\ (pc = "page" /\ run = 1 /\ EveryPageSkipped) => state = initial_state
    /\ (pc = "done" /\ run = 1 /\ EveryPageSkipped) =>
           /\ Len(outcomes) = Len(pages)
           /\ \A k \in ALL_FIELDS \ {"updated_at"} :
                  state.certification_state[k] = initial_state.certification_state[k]
           /\ state.certification_state["updated_at"] \in Timestamps
           /\ DOMAIN state.certification_state = ALL_FIELDS

\* a run over two pages, one without an object and one with a malformed one,
\* has returned, from an initial state with values of a prior run
C17_Witness ==
    /\ pc = "done" /\ initial_state = PrefilledBase
    /\ outcomes = <<"invalid JSON/state", "schema fail">>
    /\ state = WithField(PrefilledBase, "updated_at", PyStr(sStampB))

\* C18: at every point of a run of ingest_pages_token_aware, from an initial
\* state with the fixed keys and whatever the service answers, the accumulator
\* is an object with the one key certification_state whose value has exactly
\* the fixed field names.
C18_AccumulatorKeepsFixedKeys ==
    (pc # "off") =>
        /\ IsDict(state)
        /\ DOMAIN state = {"certification_state"}
        /\ IsDict(state.certification_state)
        /\ DOMAIN state.certification_state = ALL_FIELDS

\* two pages were merged into a state of a prior run, under overwrite, and the
\* state was returned
C18_Witness ==
    /\ pc = "done" /\ prefer_overwrite /\ initial_state = PrefilledBase
    /\ outcomes = <<"merged", "merged">>
    /\ contributed[1] # contributed[2]
    /\ DOMAIN state.certification_state = ALL_FIELDS

\* the entries of sources in the accumulator
Sources == state.certification_state["sources"].v

NoDuplicateSource ==
    \A i, j \in 1..Len(Sources) : Sources[i] = Sources[j] => i = j

\* C19: after every page and in the returned state, sources has the url of
\* every page whose candidate was merged, and no entry twice, also when pages
\* share a url or the initial state has the url already.
C19_SourcesHoldContributingUrlsOnce ==
    (pc \in {"page", "done"} /\ run = 1) =>
        /\ \A i \in 1..Len(outcomes) :
               outcomes[i] = "merged" => \E j \in 1..Len(Sources) : Sources[j] = pages[i]
        /\ NoDuplicateSource

\* two merged pages with the url that the initial state's sources had already
C19_Witness ==
    /\ pc = "done" /\ initial_state = PrefilledBase
    /\ initial_state.certification_state["sources"] = PyList(<<PyStr(urlA)>>)
    /\ pages = <<PyStr(urlA), PyStr(urlA)>>
    /\ outcomes = <<"merged", "merged">>
    /\ Sources = <<PyStr(urlA)>>

(***************************************************************************)
(* ingest_pages_token_aware run again on its own result                    *)
(***************************************************************************)
\* C20: when ingest_pages_token_aware is run again with the state the first
\* run returned as initial state, over the same pages yielding the same
\* candidates, in either merge mode, the state it returns equals the first
\* run's in every field other than updated_at.
C20_RerunReturnsSameState ==
    (pc = "done" /\ run = 2) =>
        \A k \in ALL_FIELDS \ {"updated_at"} :
            state.certification_state[k] = previous_final.certification_state[k]

\* the scenario of two pages, run twice under overwrite: page A gives the name
\* and the region, page B gives mandatory and the same region
C20_Witness ==
    /\ pc = "done" /\ run = 2 /\ prefer_overwrite
    /\ pages = <<PyStr(urlA), PyStr(urlB)>>
    /\ contributed = <<ScenarioA, ScenarioB>>
    /\ outcomes = <<"merged", "merged">>
    /\ state.certification_state["name"] = PyStr(sRoHS)
    /\ state.certification_state["region"] = PyStr(sEUEEA)
    /\ state.certification_state["mandatory"] = PyBool(TRUE)
    /\ state.certification_state["sources"] = PyList(<<PyStr(urlA), PyStr(urlB)>>)

(***************************************************************************)
(* extract_json_or_none                                                    *)
(***************************************************************************)
\* the attempts on a trimmed text, each with its object or None: the whole
\* text when it is wrapped in braces, the group of a fenced block labelled
\* json, the span from the first "{" to the last "}" parsed strictly, and
\* the same span with trailing commas removed
WholeTextAttempt(s) ==
    IF s # <<>> /\ s[1] = "{" /\ s[Len(s)] = "}" /\ StrictParses(s)
    THEN JsonObject(s) ELSE None

FencedBlockExists(s) == FenceMatches(s) # {}

FencedBlockAttempt(s) ==
    IF FencedBlockExists(s) /\ StrictParses(FencedGroup(s))
    THEN JsonObject(FencedGroup(s)) ELSE None

StrictSpanAttempt(s) ==
    IF BraceSpan(s) # <<>> /\ StrictParses(BraceSpan(s))
    THEN JsonObject(BraceSpan(s)) ELSE None

RelaxedSpanAttempt(s) ==
    IF BraceSpan(s) # <<>> /\ StrictParses(RemoveTrailingCommas(BraceSpan(s)))
    THEN JsonObject(RemoveTrailingCommas(BraceSpan(s))) ELSE None

\* the first of the attempts that has an object, None when none has
FirstSuccess(attempts) ==
    LET won == {i \in 1..Len(attempts) : ~IsNone(attempts[i])}
    IN IF won = {} THEN None ELSE attempts[MinOf(won)]

\* C21 as stated: the span from the first "{" to the last "}" is tried only
\* when the text has no fenced block labelled json.
C21_SpanOnlyWithoutFencedBlock ==
    (x_pc = "returned") =>
        LET s == Strip(x_text)
        IN x_out = FirstSuccess(
                      <<WholeTextAttempt(s), FencedBlockAttempt(s)>> \o
                      (IF FencedBlockExists(s) THEN <<>>
                       ELSE <<StrictSpanAttempt(s), RelaxedSpanAttempt(s)>>))

\* C21: extract_json_or_none returns the object of the first attempt that
\* succeeds, in the order whole text, fenced block, span parsed strictly,
\* span parsed with trailing commas removed, the span being tried whenever
\* the attempts before it failed, with or without a fenced block; it
\* returns None when all fail and for an empty or whitespace-only text.
C21_FirstSuccessOfOrderedAttempts ==
    (x_pc = "returned") =>
        LET s == Strip(x_text)
        IN /\ x_out = FirstSuccess(<<WholeTextAttempt(s), FencedBlockAttempt(s),
                                     StrictSpanAttempt(s), RelaxedSpanAttempt(s)>>)
           /\ (NoSpaces(x_text) = <<>>) => IsNone(x_out)

\* a fenced block whose group has a trailing comma: the block does not parse
\* and the span with the comma removed does
C21_Witness ==
    /\ x_pc = "returned"
    /\ x_text = <<"F", "J", "{", "a", ",", "}", "F">>
    /\ FencedBlockExists(x_text) /\ ~StrictParses(FencedGroup(x_text))
    /\ x_out = JsonObject(<<"a">>)

(***************************************************************************)
(* TokenManager.chunk_content                                              *)
(***************************************************************************)
\* the paragraphs of the chunks, chunk after chunk
RECURSIVE ParagraphsOfChunks(_)
ParagraphsOfChunks(cs) ==
    IF cs = <<>> THEN <<>>
    ELSE SplitParagraphs(Head(cs)) \o ParagraphsOfChunks(Tail(cs))

RECURSIVE TokensOfParagraphs(_)
TokensOfParagraphs(ps) ==
    IF ps = <<>> THEN 0 ELSE count_tokens(Head(ps)) + TokensOfParagraphs(Tail(ps))

\* C22: the chunks chunk_content returns, joined by the paragraph separator,
\* are the content; their paragraphs, in order, are the paragraphs of the
\* content; a chunk of more than one paragraph has at most chunk_size tokens
\* in its paragraphs together; and a paragraph of more than chunk_size tokens
\* is alone in its chunk.
C22_ChunksKeepParagraphsWhole ==
    (k_pc = "returned") =>
        /\ JoinParagraphs(chunks) = content
        /\ ParagraphsOfChunks(chunks) = SplitParagraphs(content)
        /\ \A i \in 1..Len(chunks) :
               LET ps == SplitParagraphs(chunks[i])
               IN /\ Len(ps) > 1 => TokensOfParagraphs(ps) <= chunk_size
                  /\ (\E j \in 1..Len(ps) : count_tokens(ps[j]) > chunk_size)
                        => Len(ps) = 1

\* two paragraphs of one and two tokens with chunk_size 1: the second is
\* larger than chunk_size and is a chunk of its own
C22_Witness ==
    /\ k_pc = "returned" /\ chunk_size = 1
    /\ content = <<"x", Newline, Newline, "x", "x">>
    /\ chunks = <<<<"x">>, <<"x", "x">>>>

(***************************************************************************)
(* ingest_pages_token_aware: the stages of a page                          *)
(***************************************************************************)
\* the terminal states of a page: MERGED, and SKIPPED for either reason
IsTerminal(outcome) == outcome \in {"merged", "invalid JSON/state", "schema fail"}

\* the pages ingest has taken up: those before idx at the head of the loop,
\* and page idx as well once its prompt is being built
PagesTakenUp ==
    IF pc \in {"page", "done"} THEN Min(idx - 1, Len(pages)) ELSE idx

\* C23: whenever ingest is not at work on a page (it is at the head of the
\* loop, it has returned, or an exception has left it), every page it has
\* taken up has ended in exactly one terminal state, MERGED or SKIPPED.
C23_EveryPageEndsMergedOrSkipped ==
    (pc \in {"page", "done", "raised"}) =>
        /\ Len(outcomes) = PagesTakenUp
        /\ \A i \in 1..Len(outcomes) : IsTerminal(outcomes[i])

\* the stages of a page that does end: the call follows the building of the
\* prompt, the check follows a response, the merge follows a validation that
\* succeeded, the accumulator changes at the merge and at the final stamping
\* only, and an outcome is recorded as the next page begins, MERGED exactly
\* when the step is the merge
PageStagesInOrder ==
    [][/\ (pc' = "call" /\ pc # "call") => (pc \in {"page", "shrink"} /\ messages' # NoMessages)
       /\ (pc' = "check") => (pc = "call" /\ calls' = calls + 1)
       /\ (pc' = "merge") =>
             (/\ pc = "check" /\ IsDict(candidate)
              /\ validate_state_shape(candidate).err = "none"
              /\ candidate' = validate_state_shape(candidate).val)
       /\ (state' # state) => (pc = "merge" \/ pc' = "done")
       /\ (outcomes' # outcomes) =>
             (/\ Len(outcomes') = Len(outcomes) + 1
              /\ pc' = "page" /\ idx' = idx + 1
              /\ (outcomes'[Len(outcomes')] = "merged") <=> (pc = "merge")
              /\ (pc # "merge") => state' = state)]_vars

\* the fields the prompt at hand asks for
RequestedFields == {messages.empty_fields[i] : i \in 1..Len(messages.empty_fields)}

\* C24: the prompt of page idx is built against the accumulator as the pages
\* before it left it: the fields it asks for are exactly those that hold
\* null, "" or [] in the accumulator, updated_at left out, so that no field
\* for which an earlier merged page gave a value is asked for again.
C24_PromptAsksForCurrentEmptyFields ==
    (pc \in {"shrink", "call", "check", "merge"} /\ run = 1
       /\ messages.kind \in {"full", "trimmed"}) =>
        /\ RequestedFields =
              {k \in ALL_FIELDS \ {"updated_at"} :
                  state.certification_state[k] \in {None, PyStr(<<>>), PyList(<<>>)}}
        /\ \A i \in 1..Len(contributed) :
              IsDict(contributed[i]) =>
                 \A k \in ALL_FIELDS :
                    ~_is_empty(contributed[i].certification_state[k]) =>
                        k \notin RequestedFields

\* the prompt of the second page, after a first page that gave name and
\* region: neither is asked for, mandatory still is
C24_Witness ==
    /\ pc = "call" /\ idx = 2 /\ initial_state = EMPTY_STATE
    /\ contributed = <<CandA>>
    /\ messages.kind = "full"
    /\ "name" \notin RequestedFields /\ "region" \notin RequestedFields
    /\ "mandatory" \in RequestedFields

(***************************************************************************)
(* Properties of call_llm_json: what is sent and the delays (SpecCall)     *)
(***************************************************************************)
\* the conversation a request carries is the value of messages when the
\* request is made (line 426)
RequestMade == calls' = calls + 1

\* C25: the first request for a page carries the prompt built for the page
\* and every later one the fixed corrective conversation; the delay slept
\* before retry k is retry_backoff_seconds * k, and nothing is slept after
\* the last attempt has failed.
C25_RetriesSendCorrectiveAfterLinearDelay ==
    /\ [][RequestMade =>
             IF calls = 0 THEN messages.kind = "full" \/ messages.kind = "trimmed"
             ELSE messages = CorrectiveMessages]_vars
    /\ []((pc \in {"call", "check", "raised"}) =>
             /\ Len(slept) = attempt - 1
             /\ \A k \in 1..Len(slept) : slept[k] = retry_backoff_seconds * k)
    /\ []((pc = "check" /\ IsNone(candidate)) =>
             /\ calls = max_retries + 1
             /\ Len(slept) = max_retries)

\* three attempts have failed: two delays, of one and of two backoff units
C25_Witness ==
    /\ pc = "check" /\ IsNone(candidate) /\ max_retries = 2 /\ calls = 3
    /\ messages = CorrectiveMessages
    /\ slept = <<retry_backoff_seconds, 2 * retry_backoff_seconds>>

(***************************************************************************)
(* The kinds of the fields validate_state_shape returns (SpecValidate)     *)
(***************************************************************************)
\* a list of non-empty, trimmed, pairwise distinct strings
IsCleanStringList(val) ==
    /\ IsList(val)
    /\ \A i \in 1..Len(val.v) :
          /\ IsStr(val.v[i]) /\ val.v[i].v # <<>>
          /\ Strip(val.v[i].v) = val.v[i].v
          /\ \A j \in 1..Len(val.v) : val.v[i] = val.v[j] => i = j

\* a number in the sense of the data model: an integer or a float
IsNumber(val) == ~IsDict(val) /\ val.t \in {"int", "float"}

HoldsDeclaredKind(k, val, number(_)) ==
    IF k \in STRING_FIELDS THEN IsNone(val) \/ IsStr(val)
    ELSE IF k \in BOOL_FIELDS THEN IsNone(val) \/ IsBool(val)
    ELSE IF k \in NUMBER_FIELDS THEN IsNone(val) \/ number(val)
    ELSE IsCleanStringList(val)

\* C26: whenever validate_state_shape returns, every field of the returned
\* state holds a value of its declared kind: a string field null or a
\* string, mandatory null or a boolean, a number field null or a number and
\* never a boolean, a list field a list of non-empty trimmed distinct strings.
C26_ValidatedFieldsHoldDeclaredKind ==
    (v_pc = "validated" /\ v_res.err = "none") =>
        \A k \in ALL_FIELDS :
            HoldsDeclaredKind(k, v_res.val.certification_state[k], IsNumber)

\* the same with the booleans that isinstance(x, (int, float)) lets through
ValidatedKindsUpToBooleanNumbers ==
    (v_pc = "validated" /\ v_res.err = "none") =>
        \A k \in ALL_FIELDS :
            HoldsDeclaredKind(k, v_res.val.certification_state[k], IsIntOrFloat)

(***************************************************************************)
(* false and 0 in merge_cert_state (SpecMerge)                             *)
(***************************************************************************)
FalseOrZero == {PyBool(FALSE), PyInt(0)}
TrueOrNonZero == {PyBool(TRUE), PyInt(36), PyInt(5)}

\* C27: a candidate's false (mandatory) or 0 (a number field) is a value: it
\* fills a null base field under fill-only and replaces true or a non-zero
\* number under prefer_overwrite; a base's false or 0 is a value too and
\* stays under fill-only whatever the candidate holds.
C27_FalseAndZeroAreValues ==
    Merged =>
        \A k \in BOOL_FIELDS \cup NUMBER_FIELDS :
            /\ (~m_prefer /\ IsNone(mb[k]) /\ mc[k] \in FalseOrZero) => mo[k] = mc[k]
            /\ (m_prefer /\ mb[k] \in TrueOrNonZero /\ mc[k] \in FalseOrZero)
                  => mo[k] = mc[k]
            /\ (~m_prefer /\ mb[k] \in FalseOrZero) => mo[k] = mb[k]

\* fill-only: false fills the null mandatory, and the 0 of lead_time_days
\* stays against the candidate's 5
C27_Witness ==
    /\ Merged /\ ~m_prefer
    /\ IsNone(mb["mandatory"]) /\ mc["mandatory"] = PyBool(FALSE)
    /\ mo["mandatory"] = PyBool(FALSE)
    /\ mb["lead_time_days"] = PyInt(0) /\ mc["lead_time_days"] = PyInt(5)
    /\ mo["lead_time_days"] = PyInt(0)

\* prefer_overwrite: 0 replaces 36
OverwriteByZeroReached ==
    /\ Merged /\ m_prefer
    /\ mb["validity_period_months"] = PyInt(36) /\ mc["validity_period_months"] = PyInt(0)
    /\ mo["validity_period_months"] = PyInt(0)

(***************************************************************************)
(* A response that is the empty JSON object (Spec)                         *)
(***************************************************************************)
EmptyObjectReturned == pc = "check" /\ candidate = EmptyDict

\* C28 as stated: when the response for a page parses to the empty object,
\* exactly one request was made for the page.
C28_EmptyObjectAfterOneCall == EmptyObjectReturned => calls = 1

\* C28: a response that parses to the empty object ends call_llm_json with
\* that object and no retry after it; ingest then skips the page as an
\* invalid candidate, before validate_state_shape and merge_cert_state, and
\* leaves the accumulator as it was.  The page has had one request when the
\* response was the first, and one request per attempt made otherwise.
C28_EmptyObjectIsSuccessThenSkipped ==
    /\ [][(ResponseReceived /\ extract_json_or_none(raw') = EmptyDict) =>
             (pc' = "check" /\ candidate' = EmptyDict /\ attempt' = attempt
                /\ slept' = slept)]_vars
    /\ [][EmptyObjectReturned =>
             (/\ state' = state /\ pc' = "page" /\ idx' = idx + 1
              /\ outcomes' = Append(outcomes, "invalid JSON/state"))]_vars
    /\ [](EmptyObjectReturned =>
             (/\ extract_json_or_none(raw) = EmptyDict
              /\ calls = attempt /\ (attempt = 1 => calls = 1)))

\* the empty object came as the second response for the page
C28_Witness ==
    /\ EmptyObjectReturned /\ raw = BareObject(EmptyDict)
    /\ attempt = 2 /\ calls = 2 /\ idx = 1

(***************************************************************************)
(* The accumulator from one page to the next (SpecGrow)                    *)
(***************************************************************************)
IsPrefixOf(a, b) == Len(a) <= Len(b) /\ SubSeq(b, 1, Len(a)) = a

\* a step of the loop over pages, as opposed to the stamping of lines 487-489
PageStep == pc' # "done"

ListsOnlyGrow ==
    \A k \in LIST_STRING_FIELDS :
        IsPrefixOf(state.certification_state[k].v, state'.certification_state[k].v)

\* fill-only: a scalar that is not empty(_) holds the same value after the step
FilledScalarsStay(empty(_)) ==
    ~prefer_overwrite =>
        \A k \in SCALAR_FIELDS :
            ~empty(state.certification_state[k]) =>
                state'.certification_state[k] = state.certification_state[k]

StampTouchesUpdatedAtOnly ==
    \A k \in ALL_FIELDS \ {"updated_at"} :
        state'.certification_state[k] = state.certification_state[k]

\* C29 as stated, with null as the empty value of a scalar: from a validated
\* initial state every page leaves each list a prefix of what it becomes and,
\* under fill-only, leaves every scalar that is not null as it is; the
\* stamping changes updated_at only.
C29_NonNullScalarsStay ==
    [][IF PageStep THEN ListsOnlyGrow /\ FilledScalarsStay(IsNone)
       ELSE StampTouchesUpdatedAtOnly]_vars

\* C29: from a validated initial state every page leaves each list a prefix
\* of what it becomes and, under fill-only, leaves every scalar that is not
\* empty as it is, where null, "", [] and {} are empty; the stamping changes
\* updated_at only.
C29_AccumulatorOnlyGrows ==
    [][IF PageStep THEN ListsOnlyGrow /\ FilledScalarsStay(_is_empty)
       ELSE StampTouchesUpdatedAtOnly]_vars

\* two merged pages on a prefilled state: sources and aliases grew at the
\* end, region and mandatory kept what the state came with
C29_Witness ==
    /\ pc = "done" /\ ~prefer_overwrite /\ initial_state = PrefilledBase
    /\ contributed = <<CandA, CandOtherAlias>>
    /\ Sources = <<PyStr(urlA), PyStr(urlB)>>
    /\ state.certification_state["aliases"] = PyList(<<PyStr(sLead), PyStr(slead)>>)
    /\ state.certification_state["region"] = PyStr(sEU)
    /\ state.certification_state["mandatory"] = PyBool(FALSE)

(***************************************************************************)
(* The caller's template across runs (SpecOwn)                             *)
(***************************************************************************)
SharesNoObject(a, b) == ObjectsOf(o_heap, a) \cap ObjectsOf(o_heap, b) = {}

\* C30: a run never changes the object passed as initial_state, the
\* module-level EMPTY_STATE included: at every point the template holds the
\* field values it had before the first run, every run starts from these
\* values, and the states returned share no object with the template nor
\* with one another, so that nothing done in or after one run reaches the
\* next.
C30_TemplateIsNeverMutated ==
    /\ []((o_pc # "off") =>
             /\ LoadState(o_heap, template) = template_before
             /\ \A i \in 1..Len(results) :
                   /\ SharesNoObject(results[i], template)
                   /\ \A j \in 1..Len(results) :
                         i # j => SharesNoObject(results[i], results[j])
             /\ (o_pc = "loop") => SharesNoObject(o_state, template))
    /\ [][(o_pc = "caller" /\ o_pc' = "loop") =>
             LoadState(o_heap', o_state') = template_before]_vars

\* a first run merged two pages and the caller changed what it returned; the
\* second run, without pages, returned the template's values with the stamp
C30_Witness ==
    /\ o_pc = "caller" /\ Len(results) = 2
    /\ template_before = EMPTY_STATE
    /\ LoadState(o_heap, results[1]).certification_state["name"] = PyStr(sUS)
    /\ LoadState(o_heap, results[1]).certification_state["region"] = PyStr(sUS)
    /\ LoadState(o_heap, results[2]) = WithField(EMPTY_STATE, "updated_at", PyStr(sStampB))

====
